---- MODULE Spec2Model ----
(***************************************************************************)
(* fcc-db: merge of the FCC AM, CO, EN and HD .DAT extracts into one file  *)
(* in callsign order.                                                      *)
(*                                                                         *)
(* A std::string is modelled as a sequence of one-character strings, so    *)
(* that substr, size and character comparison are computed, not assumed.   *)
(***************************************************************************)
EXTENDS Integers, Sequences, FiniteSets, TLC

\* ------------------------------------------------------------------------
\* Characters
\* ------------------------------------------------------------------------

\* The characters the model draws strings from, with their ASCII codes.
CharCode ==
  [c \in {"-", "/", "0", "1", "2", "3", "4", "5", "6", "7", "8", "9", ":",
          "A", "B", "E", "G", "K", "M", "N", "W", "X", "Y", " ", "|", "<", ">", "L", "F"} |->
     CASE c = " " -> 32 [] c = "-" -> 45 [] c = "/" -> 47
       [] c = "0" -> 48 [] c = "1" -> 49 [] c = "2" -> 50 [] c = "3" -> 51
       [] c = "4" -> 52 [] c = "5" -> 53 [] c = "6" -> 54 [] c = "7" -> 55
       [] c = "8" -> 56 [] c = "9" -> 57 [] c = ":" -> 58 [] c = "<" -> 60
       [] c = ">" -> 62
       [] c = "A" -> 65 [] c = "B" -> 66 [] c = "E" -> 69 [] c = "F" -> 70
       [] c = "G" -> 71 [] c = "K" -> 75 [] c = "L" -> 76 [] c = "M" -> 77
       [] c = "N" -> 78 [] c = "W" -> 87 [] c = "X" -> 88 [] c = "Y" -> 89
       [] c = "|" -> 124]

\* isalpha in the "C" locale
isalpha(c) ==
  \/ (CharCode[c] >= 65 /\ CharCode[c] <= 90)
  \/ (CharCode[c] >= 97 /\ CharCode[c] <= 122)

\* isdigit
isdigit(c) == CharCode[c] >= 48 /\ CharCode[c] <= 57

\* std::string::operator< on strings of these characters (lexicographic, by code)
RECURSIVE StrLessFrom(_, _, _)
StrLessFrom(s, t, i) ==
  IF i > Len(s) \/ i > Len(t) THEN Len(s) < Len(t)
  ELSE IF s[i] # t[i] THEN CharCode[s[i]] < CharCode[t[i]]
  ELSE StrLessFrom(s, t, i + 1)

StrLess(s, t) == StrLessFrom(s, t, 1)

\* ------------------------------------------------------------------------
\* compare_calls
\* ------------------------------------------------------------------------

\* compchar with the test for '0' among digits left out
compchar_NoZeroRule(c1, c2) ==
  IF c1 = c2 THEN FALSE
  ELSE IF c2 = "/" THEN TRUE
  ELSE IF c1 = "/" THEN FALSE
  ELSE IF isalpha(c1) /\ isdigit(c2) THEN TRUE
  ELSE IF isdigit(c1) /\ isalpha(c2) THEN FALSE
  ELSE CharCode[c1] < CharCode[c2]

\* the lambda compchar of compare_calls: is c1 before c2?
compchar(c1, c2) ==
  IF c1 = c2 THEN FALSE
  ELSE IF c2 = "/" THEN TRUE
  ELSE IF c1 = "/" THEN FALSE
  ELSE IF isalpha(c1) /\ isdigit(c2) THEN TRUE
  ELSE IF isdigit(c1) /\ isalpha(c2) THEN FALSE
  ELSE IF isdigit(c1) /\ isdigit(c2) /\ c1 = "0" THEN FALSE
  ELSE IF isdigit(c1) /\ isdigit(c2) /\ c2 = "0" THEN TRUE
  ELSE CharCode[c1] < CharCode[c2]

\* the while loop of compare_calls, from (1-based) position index
RECURSIVE compare_from(_, _, _)
compare_from(call1, call2, index) ==
  LET l1 == Len(call1)
      l2 == Len(call2)
      n_to_compare == IF l1 < l2 THEN l1 ELSE l2
  IN IF index <= n_to_compare
       THEN IF call1[index] # call2[index]
              THEN compchar(call1[index], call2[index])
              ELSE compare_from(call1, call2, index + 1)
       ELSE l1 < l2

compare_calls(call1, call2) == compare_from(call1, call2, 1)

\* ------------------------------------------------------------------------
\* transform_date, date_string
\* ------------------------------------------------------------------------

\* transform_date accepts a date: it is 10 characters long
DateOk(us_date) == Len(us_date) = 10

\* transform_date without the reordering of the components
transform_date_NoReorder(us_date) == us_date

\* transform_date, for a date it accepts: substr(6,4) + "-" + substr(0,2) + "-" + substr(3,2)
transform_date(us_date) ==
  SubSeq(us_date, 7, 10) \o <<"-">> \o SubSeq(us_date, 1, 2) \o <<"-">> \o SubSeq(us_date, 4, 5)

\* ------------------------------------------------------------------------
\* Record layouts
\* ------------------------------------------------------------------------

\* enum class AM: the field names of an AM record, in field order
AM_ORDER ==
  <<"RECORD_TYPE", "ID", "ULS_NUMBER", "EBF_NUMBER", "CALLSIGN",
    "OPERATOR_CLASS", "GROUP_CODE", "REGION_CODE", "TRUSTEE_CALLSIGN",
    "TRUSTEE_INDICATOR", "PHYSICIAN_CERTIFICATION", "VE_SIGNATURE",
    "SYSTEMATIC_CALLSIGN_CHANGE", "VANITY_CALLSIGN_CHANGE",
    "VANITY_RELATIONSHIP", "PREVIOUS_CALLSIGN", "PREVIOUS_OPERATOR_CLASS",
    "TRUSTEE_NAME">>

\* enum class CO: the field names of a CO record, in field order
CO_ORDER ==
  <<"RECORD_TYPE", "ID", "ULS_NUMBER", "CALLSIGN", "COMMENT_DATE",
    "DESCRIPTION", "STATUS_CODE", "STATUS_DATE">>

\* enum class EN: the field names of an EN record, in field order
EN_ORDER ==
  <<"RECORD_TYPE", "ID", "ULS_NUMBER", "EBF_NUMBER", "CALLSIGN",
    "ENTITY_TYPE", "LICENSE_ID", "ENTITY_NAME", "FIRST_NAME",
    "MIDDLE_INITIAL", "LAST_NAME", "SUFFIX", "PHONE", "FAX", "EMAIL",
    "STREET_ADDRESS", "CITY", "STATE", "ZIP_CODE", "PO_BOX",
    "ATTENTION_LINE", "SGIN", "FRN", "APPLICANT_TYPE_CODE",
    "APPLICANT_TYPE_CODE_OTHER", "STATUS_CODE", "STATUS_DATE",
    "LICENSE_TYPE_37", "LINKED_ID", "LINKED_CALLSIGN">>

\* enum class HD: the field names of an HD record, in field order
HD_ORDER ==
  <<"RECORD_TYPE", "ID", "ULS_NUMBER", "EBF_NUMBER", "CALLSIGN",
    "LICENSE_STATUS", "RADIO_SERVICE_CODE", "GRANT_DATE", "EXPIRED_DATE",
    "CANCELLATION_DATE", "ELIGIBILITY_RULE_NUM", "RESERVED_1", "ALIEN",
    "ALIEN_GOVERNMENT", "ALIEN_CORPORATION", "ALIEN_OFFICER",
    "ALIEN_CONTROL", "REVOKED", "CONVICTED", "ADJUDGED", "RESERVED_2",
    "COMMON_CARRIER", "NON_COMMON_CARRIER", "PRIVATE_COMM", "FIXED",
    "MOBILE", "RADIOLOCATION", "SATELLITE",
    "DEVELOPMENTAL_STA_DEMONSTRATION", "INTERCONNECTED_SERVICE",
    "CERTIFIER_FIRST_NAME", "CERTIFIER_MIDDLE_INITIAL",
    "CERTIFIER_LAST_NAME", "CERTIFIER_SUFFIX", "CERTIFIER_TITLE", "FEMALE",
    "BLACK_AFRICAN_AMERICAN", "NATIVE_AMERICAN", "HAWAIIAN", "ASIAN",
    "WHITE", "HISPANIC", "EFFECTIVE_DATE", "LAST_ACTION_DATE", "AUCTION_ID",
    "BROADCAST_SERVICES_REGULATORY_STATUS", "BAND_MANAGER_REGULATORY_STATUS",
    "BROADCAST_SERVICES_SERVICE_TYPE", "ALIEN_RULING",
    "LICENSEE_NAME_CHANGE", "WHITESPACE_INDICATOR", "REQUIREMENT_CHOICE",
    "REQUIREMENT_ANSWER", "DISCONTINUED_SERVICE", "REGULATORY_COMPLIANCE",
    "ELIGIBILITY_900_MHZ", "TRANSITION_PLAN_900_MHZ",
    "RETURN_SPRCTRUM_900_MHZ", "PAYMENT_900_MHZ">>

\* enum class FCC: the field names of the merged record, in field order
FCC_ORDER ==
  <<"ID", "CALLSIGN", "OPERATOR_CLASS", "GROUP_CODE", "REGION_CODE",
    "TRUSTEE_CALLSIGN", "TRUSTEE_INDICATOR", "SYSTEMATIC_CALLSIGN_CHANGE",
    "VANITY_CALLSIGN_CHANGE", "VANITY_RELATIONSHIP", "PREVIOUS_CALLSIGN",
    "PREVIOUS_OPERATOR_CLASS", "TRUSTEE_NAME", "COMMENT_DATE", "DESCRIPTION",
    "CO_STATUS_CODE", "CO_STATUS_DATE", "ENTITY_NAME", "FIRST_NAME",
    "MIDDLE_INITIAL", "LAST_NAME", "SUFFIX", "PHONE", "FAX", "EMAIL",
    "STREET_ADDRESS", "CITY", "STATE", "ZIP_CODE", "PO_BOX",
    "ATTENTION_LINE", "FRN", "APPLICANT_TYPE_CODE",
    "APPLICANT_TYPE_CODE_OTHER", "EN_STATUS_CODE", "EN_STATUS_DATE",
    "LICENSE_STATUS", "RADIO_SERVICE_CODE", "GRANT_DATE", "EXPIRED_DATE",
    "CANCELLATION_DATE", "ELIGIBILITY_RULE_NUM", "REVOKED", "CONVICTED",
    "ADJUDGED", "EFFECTIVE_DATE", "LAST_ACTION_DATE", "LICENSEE_NAME_CHANGE",
    "LINKED_ID", "LINKED_CALLSIGN">>

Range(seq) == {seq[i] : i \in 1..Len(seq)}

\* position (0-based, as the enum value) of a field in a layout
FieldIndex(order, f) == (CHOOSE i \in 1..Len(order) : order[i] = f) - 1

\* a default-constructed FCC_RECORD: every field is the empty string
EmptyFCC == [f \in Range(FCC_ORDER) |-> <<>>]

\* ------------------------------------------------------------------------
\* Strings and records the inputs are drawn from
\* ------------------------------------------------------------------------

K1A == <<"K", "1", "A">>
K1B == <<"K", "1", "B">>
PastDate == <<"0", "1", "/", "0", "2", "/", "2", "0", "2", "0">>
BadDate == <<"1", "/", "2", "/", "2", "0">>
IDs == {<<"1">>, <<"2">>}

\* the values date_string can return in the runs modelled: the day of PastDate, and a later day
Todays == {<<"2", "0", "2", "0", "-", "0", "1", "-", "0", "2">>,
           <<"2", "0", "2", "5", "-", "0", "6", "-", "1", "5">>}

AMRec(id, call, cls) ==
  [f \in Range(AM_ORDER) |->
     CASE f = "RECORD_TYPE" -> <<"A", "M">> [] f = "ID" -> id [] f = "CALLSIGN" -> call
       [] f = "OPERATOR_CLASS" -> cls [] OTHER -> <<>>]

CORec(id, call, date, descr) ==
  [f \in Range(CO_ORDER) |->
     CASE f = "RECORD_TYPE" -> <<"C", "O">> [] f = "ID" -> id [] f = "CALLSIGN" -> call
       [] f = "COMMENT_DATE" -> date [] f = "DESCRIPTION" -> descr [] OTHER -> <<>>]

ENRec(id, call, name, date) ==
  [f \in Range(EN_ORDER) |->
     CASE f = "RECORD_TYPE" -> <<"E", "N">> [] f = "ID" -> id [] f = "CALLSIGN" -> call
       [] f = "ENTITY_NAME" -> name [] f = "STATUS_DATE" -> date [] OTHER -> <<>>]

HDRec(id, call, status, expired, cancelled) ==
  [f \in Range(HD_ORDER) |->
     CASE f = "RECORD_TYPE" -> <<"H", "D">> [] f = "ID" -> id [] f = "CALLSIGN" -> call
       [] f = "LICENSE_STATUS" -> status
       [] f = "EXPIRED_DATE" -> expired [] f = "CANCELLATION_DATE" -> cancelled
       [] OTHER -> <<>>]

AMSample == {AMRec(id, call, <<"E">>) : id \in IDs, call \in {<<>>, K1A, K1B}}
COSample == {CORec(id, call, x[1], x[2]) :
               id \in IDs, call \in {K1A, K1B},
               x \in {<<<<>>, <<>>>>, <<PastDate, <<"X">>>>, <<BadDate, <<"X">>>>}}
ENSample == {ENRec(id, call, x[1], x[2]) :
               id \in IDs, call \in {K1A, K1B},
               x \in {<<<<>>, <<>>>>, <<<<"X">>, PastDate>>}}
HDSample == {HDRec(id, call, <<"A">>, x[1], x[2]) :
               id \in IDs, call \in {K1A, K1B},
               x \in {<<<<>>, <<>>>>, <<PastDate, <<>>>>, <<<<>>, PastDate>>}}

\* ------------------------------------------------------------------------
\* fcc_file: the merged file, a map from ID to FCC_RECORD
\* ------------------------------------------------------------------------

\* the field assignments of operator+=(const AM_RECORD&), in program order: <<how, FCC field, source field>>
AM_OPS ==
  <<<<"copy", "CALLSIGN", "CALLSIGN">>,
    <<"copy", "OPERATOR_CLASS", "OPERATOR_CLASS">>,
    <<"copy", "GROUP_CODE", "GROUP_CODE">>,
    <<"copy", "REGION_CODE", "REGION_CODE">>,
    <<"copy", "TRUSTEE_CALLSIGN", "TRUSTEE_CALLSIGN">>,
    <<"copy", "TRUSTEE_INDICATOR", "TRUSTEE_INDICATOR">>,
    <<"copy", "SYSTEMATIC_CALLSIGN_CHANGE", "SYSTEMATIC_CALLSIGN_CHANGE">>,
    <<"copy", "VANITY_CALLSIGN_CHANGE", "VANITY_CALLSIGN_CHANGE">>,
    <<"copy", "VANITY_RELATIONSHIP", "VANITY_RELATIONSHIP">>,
    <<"copy", "PREVIOUS_CALLSIGN", "PREVIOUS_CALLSIGN">>,
    <<"copy", "PREVIOUS_OPERATOR_CLASS", "PREVIOUS_OPERATOR_CLASS">>,
    <<"copy", "TRUSTEE_NAME", "TRUSTEE_NAME">>>>

\* the field assignments of operator+=(const CO_RECORD&), in program order: <<how, FCC field, source field>>
CO_OPS ==
  <<<<"date", "COMMENT_DATE", "COMMENT_DATE">>,
    <<"copy", "DESCRIPTION", "DESCRIPTION">>,
    <<"copy", "CO_STATUS_CODE", "STATUS_CODE">>,
    <<"date", "CO_STATUS_DATE", "STATUS_DATE">>>>

\* the field assignments of operator+=(const EN_RECORD&), in program order: <<how, FCC field, source field>>
EN_OPS ==
  <<<<"copy", "ENTITY_NAME", "ENTITY_NAME">>,
    <<"copy", "FIRST_NAME", "FIRST_NAME">>,
    <<"copy", "MIDDLE_INITIAL", "MIDDLE_INITIAL">>,
    <<"copy", "LAST_NAME", "LAST_NAME">>,
    <<"copy", "SUFFIX", "SUFFIX">>,
    <<"copy", "PHONE", "PHONE">>,
    <<"copy", "FAX", "FAX">>,
    <<"copy", "EMAIL", "EMAIL">>,
    <<"copy", "STREET_ADDRESS", "STREET_ADDRESS">>,
    <<"copy", "CITY", "CITY">>,
    <<"copy", "STATE", "STATE">>,
    <<"copy", "ZIP_CODE", "ZIP_CODE">>,
    <<"copy", "PO_BOX", "PO_BOX">>,
    <<"copy", "ATTENTION_LINE", "ATTENTION_LINE">>,
    <<"copy", "FRN", "FRN">>,
    <<"copy", "APPLICANT_TYPE_CODE", "APPLICANT_TYPE_CODE">>,
    <<"copy", "APPLICANT_TYPE_CODE_OTHER", "APPLICANT_TYPE_CODE_OTHER">>,
    <<"copy", "EN_STATUS_CODE", "STATUS_CODE">>,
    <<"date", "EN_STATUS_DATE", "STATUS_DATE">>>>

\* the field assignments of operator+=(const HD_RECORD&), in program order: <<how, FCC field, source field>>
HD_OPS ==
  <<<<"copy", "LICENSE_STATUS", "LICENSE_STATUS">>,
    <<"copy", "RADIO_SERVICE_CODE", "RADIO_SERVICE_CODE">>,
    <<"date", "GRANT_DATE", "GRANT_DATE">>,
    <<"date", "EXPIRED_DATE", "EXPIRED_DATE">>,
    <<"date", "CANCELLATION_DATE", "CANCELLATION_DATE">>,
    <<"copy", "ELIGIBILITY_RULE_NUM", "ELIGIBILITY_RULE_NUM">>,
    <<"copy", "REVOKED", "REVOKED">>,
    <<"copy", "CONVICTED", "CONVICTED">>,
    <<"copy", "ADJUDGED", "ADJUDGED">>,
    <<"date", "EFFECTIVE_DATE", "EFFECTIVE_DATE">>,
    <<"date", "LAST_ACTION_DATE", "LAST_ACTION_DATE">>,
    <<"copy", "LICENSEE_NAME_CHANGE", "LICENSEE_NAME_CHANGE">>>>


\* the outcome of one call of operator+= : the file afterwards, whether the call
\* returned ("ok") or called exit(-1) ("exit"), and what it wrote to cout and cerr
Outcome(file, how, out, err) == [file |-> file, how |-> how, out |-> out, err |-> err]

\* the assignments with an insert_date that copies a date transform_date would reject
RECURSIVE ApplyOps_CopiesBadDate(_, _, _, _)
ApplyOps_CopiesBadDate(rec, src, ops, i) ==
  IF i > Len(ops) THEN [rec |-> rec, ok |-> TRUE, bad |-> <<>>]
  ELSE LET how == ops[i][1]
           dst == ops[i][2]
           val == src[ops[i][3]]
       IN IF how = "copy" \/ ~DateOk(val)
            THEN ApplyOps_CopiesBadDate([rec EXCEPT ![dst] = val], src, ops, i + 1)
          ELSE IF val = <<>> THEN ApplyOps_CopiesBadDate(rec, src, ops, i + 1)
          ELSE ApplyOps_CopiesBadDate([rec EXCEPT ![dst] = transform_date(val)], src, ops, i + 1)

\* the assignments with an insert_date that stores the date as it is in the source
RECURSIVE ApplyOps_NoReformat(_, _, _, _)
ApplyOps_NoReformat(rec, src, ops, i) ==
  IF i > Len(ops) THEN [rec |-> rec, ok |-> TRUE, bad |-> <<>>]
  ELSE LET how == ops[i][1]
           dst == ops[i][2]
           val == src[ops[i][3]]
       IN IF how = "copy" THEN ApplyOps_NoReformat([rec EXCEPT ![dst] = val], src, ops, i + 1)
          ELSE IF val = <<>> THEN ApplyOps_NoReformat(rec, src, ops, i + 1)
          ELSE IF ~DateOk(val) THEN [rec |-> rec, ok |-> FALSE, bad |-> val]
          ELSE ApplyOps_NoReformat([rec EXCEPT ![dst] = val], src, ops, i + 1)

\* the assignments with an insert_date that also stores an empty date
RECURSIVE ApplyOps_ClearsDate(_, _, _, _)
ApplyOps_ClearsDate(rec, src, ops, i) ==
  IF i > Len(ops) THEN [rec |-> rec, ok |-> TRUE, bad |-> <<>>]
  ELSE LET how == ops[i][1]
           dst == ops[i][2]
           val == src[ops[i][3]]
       IN IF how = "copy" \/ val = <<>>
            THEN ApplyOps_ClearsDate([rec EXCEPT ![dst] = val], src, ops, i + 1)
          ELSE IF ~DateOk(val) THEN [rec |-> rec, ok |-> FALSE, bad |-> val]
          ELSE ApplyOps_ClearsDate([rec EXCEPT ![dst] = transform_date(val)], src, ops, i + 1)

\* the assignments ops[i..], applied to rec from the source record src; an
\* insert_date of a non-empty date that transform_date rejects stops them (exit)
RECURSIVE ApplyOps(_, _, _, _)
ApplyOps(rec, src, ops, i) ==
  IF i > Len(ops) THEN [rec |-> rec, ok |-> TRUE, bad |-> <<>>]
  ELSE LET how == ops[i][1]
           dst == ops[i][2]
           val == src[ops[i][3]]
       IN IF how = "copy" THEN ApplyOps([rec EXCEPT ![dst] = val], src, ops, i + 1)
          ELSE IF val = <<>> THEN ApplyOps(rec, src, ops, i + 1)
          ELSE IF ~DateOk(val) THEN [rec |-> rec, ok |-> FALSE, bad |-> val]
          ELSE ApplyOps([rec EXCEPT ![dst] = transform_date(val)], src, ops, i + 1)

\* file with the record under key replaced by (or created as) rec
Put(file, key, rec) ==
  [k \in DOMAIN file \cup {key} |-> IF k = key THEN rec ELSE file[k]]

\* what ApplyOps leaves: the file, and exit(-1) with transform_date's message on a bad date
Applied(file, key, res) ==
  IF res.ok THEN Outcome(Put(file, key, res.rec), "ok", <<>>, <<>>)
  ELSE Outcome(Put(file, key, res.rec), "exit", <<<<"Error in date: *", res.bad, "*">>>>, <<>>)

\* operator+=(const AM_RECORD&) that keeps the callsign of a record that has one
AddAM_KeepCallsign(file, amr) ==
  LET key == amr["ID"]
      rec0 == IF key \in DOMAIN file THEN file[key] ELSE EmptyFCC
      rec1 == IF rec0["ID"] = <<>> THEN [rec0 EXCEPT !["ID"] = key] ELSE rec0
      res == ApplyOps(rec1, amr, AM_OPS, 1)
  IN Applied(file, key, [res EXCEPT !.rec["CALLSIGN"] =
                           IF rec0["CALLSIGN"] = <<>> THEN @ ELSE rec0["CALLSIGN"]])

\* operator+=(const AM_RECORD&)
AddAM(file, amr) ==
  LET key == amr["ID"]
      rec0 == IF key \in DOMAIN file THEN file[key] ELSE EmptyFCC   \* (*this)[key]
      rec1 == IF rec0["ID"] = <<>> THEN [rec0 EXCEPT !["ID"] = key] ELSE rec0
  IN Applied(file, key, ApplyOps(rec1, amr, AM_OPS, 1))

\* operator+=(const CO_RECORD&) that passes over a record whose key is missing
AddCO_SkipsMissing(file, cor) ==
  LET key == cor["ID"]
  IN IF key \notin DOMAIN file
       THEN Outcome(file, "ok", <<>>, <<>>)
     ELSE IF file[key]["CALLSIGN"] # cor["CALLSIGN"]
       THEN Outcome(file, "exit", <<>>,
                    <<<<"CO callsign ", cor["CALLSIGN"],
                        " does not match callsign in FCC file: ", file[key]["CALLSIGN"]>>>>)
     ELSE Applied(file, key, ApplyOps(file[key], cor, CO_OPS, 1))

\* operator+=(const CO_RECORD&) without the comparison of the callsigns
AddCO_NoCallsignCheck(file, cor) ==
  LET key == cor["ID"]
  IN IF key \notin DOMAIN file
       THEN Outcome(file, "exit", <<>>, <<<<"CO key ", key, " not in FCC file ">>>>)
     ELSE Applied(file, key, ApplyOps(file[key], cor, CO_OPS, 1))

\* operator+=(const CO_RECORD&)
AddCO(file, cor) ==
  LET key == cor["ID"]
  IN IF key \notin DOMAIN file
       THEN Outcome(file, "exit", <<>>, <<<<"CO key ", key, " not in FCC file ">>>>)
     ELSE IF file[key]["CALLSIGN"] # cor["CALLSIGN"]
       THEN Outcome(file, "exit", <<>>,
                    <<<<"CO callsign ", cor["CALLSIGN"],
                        " does not match callsign in FCC file: ", file[key]["CALLSIGN"]>>>>)
     ELSE Applied(file, key, ApplyOps(file[key], cor, CO_OPS, 1))

\* operator+=(const EN_RECORD&) that uses (*this)[key] without looking for the key first
AddEN_Creates(file, enr) ==
  LET key == enr["ID"]
      rec0 == IF key \in DOMAIN file THEN file[key] ELSE EmptyFCC
  IN IF rec0["CALLSIGN"] # enr["CALLSIGN"]
       THEN Outcome(Put(file, key, rec0), "exit",
                    <<<<"EN callsign ", enr["CALLSIGN"],
                        " does not match callsign in FCC file: ", rec0["CALLSIGN"]>>>>,
                    <<>>)
     ELSE Applied(file, key, ApplyOps(rec0, enr, EN_OPS, 1))

\* operator+=(const EN_RECORD&)
AddEN(file, enr) ==
  LET key == enr["ID"]
  IN IF key \notin DOMAIN file
       THEN Outcome(file, "ok", <<>>, <<>>)
     ELSE IF file[key]["CALLSIGN"] # enr["CALLSIGN"]
       THEN Outcome(file, "exit",
                    <<<<"EN callsign ", enr["CALLSIGN"],
                        " does not match callsign in FCC file: ", file[key]["CALLSIGN"]>>>>,
                    <<>>)
     ELSE Applied(file, key, ApplyOps(file[key], enr, EN_OPS, 1))

\* operator+=(const HD_RECORD&) that compares the callsigns after the assignments
AddHD_CheckAfterCopy(file, hdr) ==
  LET key == hdr["ID"]
  IN IF key \notin DOMAIN file
       THEN Outcome(file, "ok", <<>>, <<>>)
     ELSE LET done == Applied(file, key, ApplyOps(file[key], hdr, HD_OPS, 1))
          IN IF done.how = "ok" /\ file[key]["CALLSIGN"] # hdr["CALLSIGN"]
               THEN Outcome(done.file, "exit",
                            <<<<"HD callsign ", hdr["CALLSIGN"],
                                " does not match callsign in FCC file: ",
                                file[key]["CALLSIGN"]>>>>,
                            <<>>)
               ELSE done

\* operator+=(const HD_RECORD&) that ends the run when the key is missing
AddHD_MissingIsFatal(file, hdr) ==
  LET key == hdr["ID"]
  IN IF key \notin DOMAIN file
       THEN Outcome(file, "exit", <<>>, <<<<"HD key ", key, " not in FCC file ">>>>)
     ELSE IF file[key]["CALLSIGN"] # hdr["CALLSIGN"]
       THEN Outcome(file, "exit",
                    <<<<"HD callsign ", hdr["CALLSIGN"],
                        " does not match callsign in FCC file: ", file[key]["CALLSIGN"]>>>>,
                    <<>>)
     ELSE Applied(file, key, ApplyOps(file[key], hdr, HD_OPS, 1))

\* operator+=(const HD_RECORD&) that takes over the callsign of the HD record
AddHD_AdoptsCallsign(file, hdr) ==
  LET key == hdr["ID"]
  IN IF key \notin DOMAIN file
       THEN Outcome(file, "ok", <<>>, <<>>)
     ELSE Applied(file, key,
                  ApplyOps([file[key] EXCEPT !["CALLSIGN"] = hdr["CALLSIGN"]], hdr, HD_OPS, 1))

\* operator+=(const HD_RECORD&)
AddHD(file, hdr) ==
  LET key == hdr["ID"]
  IN IF key \notin DOMAIN file
       THEN Outcome(file, "ok", <<>>, <<>>)
     ELSE IF file[key]["CALLSIGN"] # hdr["CALLSIGN"]
       THEN Outcome(file, "exit",
                    <<<<"HD callsign ", hdr["CALLSIGN"],
                        " does not match callsign in FCC file: ", file[key]["CALLSIGN"]>>>>,
                    <<>>)
     ELSE Applied(file, key, ApplyOps(file[key], hdr, HD_OPS, 1))

\* validate that erases nothing
validate_KeepsAll(file) == file

\* fcc_file::validate: erase_if the callsign is empty
validate(file) ==
  [k \in {j \in DOMAIN file : file[j]["CALLSIGN"] # <<>>} |-> file[k]]


\* ------------------------------------------------------------------------
\* fcc_file::to_string
\* ------------------------------------------------------------------------

\* dat_record::to_string: the fields in layout order, "|" between them
RECURSIVE RecToStringFrom(_, _, _)
RecToStringFrom(order, rec, i) ==
  IF i > Len(order) THEN <<>>
  ELSE rec[order[i]] \o (IF i < Len(order) THEN <<"|">> ELSE <<>>)
         \o RecToStringFrom(order, rec, i + 1)

RecToString(order, rec) == RecToStringFrom(order, rec, 1)

\* map::insert that replaces the record of a callsign already present
MapInsert_Overwrite(m, k, v) ==
  LET Pos == {p \in 0..Len(m) :
                /\ (p = 0 \/ ~compare_calls(k, m[p][1]))
                /\ (p = Len(m) \/ compare_calls(k, m[p + 1][1]))}
  IN {IF p > 0 /\ ~compare_calls(m[p][1], k)
        THEN [m EXCEPT ![p] = <<k, v>>]
        ELSE SubSeq(m, 1, p) \o <<<<k, v>>>> \o SubSeq(m, p + 1, Len(m)) : p \in Pos}

\* std::map<string, FCC_RECORD, compare_calls>::insert({k, v}); the map is held as the
\* sequence of its <<key, record>> pairs in iteration order. The search descends past
\* the entries k is not before and stops in front of one k is before; the key is
\* inserted there unless the entry it stopped behind is not before k (an equivalent
\* key: the map is left alone). With a comparator that is a strict weak order there is
\* one such place; otherwise the container's precondition is broken and the place
\* depends on the shape of the tree, so each consistent place is an outcome.
MapInsert(m, k, v) ==
  LET Pos == {p \in 0..Len(m) :
                /\ (p = 0 \/ ~compare_calls(k, m[p][1]))
                /\ (p = Len(m) \/ compare_calls(k, m[p + 1][1]))}
  IN {IF p > 0 /\ ~compare_calls(m[p][1], k)
        THEN m
        ELSE SubSeq(m, 1, p) \o <<<<k, v>>>> \o SubSeq(m, p + 1, Len(m)) : p \in Pos}

\* the orders in which a range-for can visit the unordered_map
IterationOrders(file) ==
  {o \in [1..Cardinality(DOMAIN file) -> DOMAIN file] :
     \A i, j \in DOMAIN o : i # j => o[i] # o[j]}

\* the first loop of to_string: output_map after inserting order[i..]
RECURSIVE InsertAllFrom(_, _, _, _)
InsertAllFrom(m, file, order, i) ==
  IF i > Len(order) THEN {m}
  ELSE UNION {InsertAllFrom(m2, file, order, i + 1) :
                m2 \in MapInsert(m, file[order[i]]["CALLSIGN"], file[order[i]])}

\* the second loop of to_string: rv += output_rec.to_string() + '\n'
RECURSIVE BuildString(_, _)
BuildString(m, i) ==
  IF i > Len(m) THEN <<>>
  ELSE RecToString(FCC_ORDER, m[i][2]) \o <<"\n">> \o BuildString(m, i + 1)


\* ------------------------------------------------------------------------
\* dat_record and the string functions of the loader
\* ------------------------------------------------------------------------

\* N_FIELDS of the layout the records are read against
N_FIELDS == 2

\* the line-break marker of the dat_file constructor
LF_MARK == <<"<", "L", "F", ">">>

\* std::toupper on the characters drawn
toupper(c) == IF c = "a" THEN "A" ELSE c

\* transform_string(cs, std::toupper)
to_upper(cs) == [i \in 1..Len(cs) |-> toupper(cs[i])]

\* a function that ended by throwing, or by returning v
Thrown(what, msg) == [ok |-> FALSE, what |-> what, msg |-> msg]
Returned(v) == [ok |-> TRUE, v |-> v]

\* cs.find(separator, start_posn) for a separator of one character; positions count
\* from 1 and 0 is npos
find(cs, separator, start_posn) ==
  LET at == {i \in start_posn..Len(cs) : cs[i] = separator}
  IN IF at = {} THEN 0 ELSE CHOOSE i \in at : \A j \in at : i <= j

\* split_string that leaves out empty components
RECURSIVE split_string_SkipsEmpty(_, _, _)
split_string_SkipsEmpty(cs, separator, start_posn) ==
  IF start_posn > Len(cs) THEN <<>>
  ELSE LET posn == find(cs, separator, start_posn)
       IN IF posn = 0
            THEN <<SubSeq(cs, start_posn, Len(cs))>>
            ELSE (IF posn = start_posn THEN <<>> ELSE <<SubSeq(cs, start_posn, posn - 1)>>)
                   \o split_string_SkipsEmpty(cs, separator, posn + 1)

\* the while loop of split_string, from start_posn
RECURSIVE split_string(_, _, _)
split_string(cs, separator, start_posn) ==
  IF start_posn > Len(cs) THEN <<>>
  ELSE LET posn == find(cs, separator, start_posn)
       IN IF posn = 0
            THEN <<SubSeq(cs, start_posn, Len(cs))>>
            ELSE <<SubSeq(cs, start_posn, posn - 1)>> \o split_string(cs, separator, posn + 1)

to_lines(cs) == split_string(cs, "\n", 1)

RECURSIVE remove_char(_, _)
remove_char(cs, char_to_remove) ==
  IF cs = <<>> THEN <<>>
  ELSE (IF Head(cs) = char_to_remove THEN <<>> ELSE <<Head(cs)>>)
         \o remove_char(Tail(cs), char_to_remove)

\* std::count(cs.begin(), cs.end(), c)
count(cs, c) == Cardinality({i \in 1..Len(cs) : cs[i] = c})

\* remove_leading that returns the empty string when nothing but c is found
remove_leading_Guarded(cs, c) ==
  LET others == {i \in 1..Len(cs) : cs[i] # c}
  IN IF others = {} THEN Returned(<<>>)
     ELSE Returned(SubSeq(cs, CHOOSE i \in others : \A j \in others : i <= j, Len(cs)))

\* remove_leading: cs.substr(cs.find_first_not_of(c)); substr(npos) throws std::out_of_range
remove_leading(cs, c) ==
  LET others == {i \in 1..Len(cs) : cs[i] # c}
  IN IF others = {} THEN Thrown("out_of_range", <<"basic_string::substr">>)
     ELSE Returned(SubSeq(cs, CHOOSE i \in others : \A j \in others : i <= j, Len(cs)))

RECURSIVE remove_trailing(_, _)
remove_trailing(cs, c) ==
  IF Len(cs) > 0 /\ cs[Len(cs)] = c THEN remove_trailing(SubSeq(cs, 1, Len(cs) - 1), c)
  ELSE cs

\* remove_trailing_spaces(remove_leading_spaces(cs))
remove_peripheral_spaces(cs) ==
  LET led == remove_leading(cs, " ")
  IN IF led.ok THEN Returned(remove_trailing(led.v, " ")) ELSE led

\* the dat_record constructor without the implied empty string after a final "|"
dat_record_NoImpliedField(str) ==
  IF str = <<>> THEN Thrown("range_error", <<"Empty record string">>)
  ELSE LET vec == split_string(to_upper(str), "|", 1)
       IN IF Len(vec) # N_FIELDS
            THEN Thrown("range_error",
                        <<"Incorrect number of fields in record string: ", str,
                          "; should be ", N_FIELDS, "; found ", Len(vec)>>)
            ELSE Returned(vec)

\* dat_record(const std::string& str): _data, or the std::range_error thrown
dat_record(str) ==
  IF str = <<>> THEN Thrown("range_error", <<"Empty record string">>)
  ELSE LET split == split_string(to_upper(str), "|", 1)
           vec == IF str[Len(str)] = "|" THEN Append(split, <<>>) ELSE split
       IN IF Len(vec) # N_FIELDS
            THEN Thrown("range_error",
                        <<"Incorrect number of fields in record string: ", str,
                          "; should be ", N_FIELDS, "; found ", Len(vec)>>)
            ELSE Returned(vec)

\* dat_record::to_string for _data held by position
data_to_string(data) == RecToString([i \in 1..Len(data) |-> i], data)


\* ------------------------------------------------------------------------
\* The run of main
\* ------------------------------------------------------------------------

\* most records the four files hold together
MaxRecs == 3

VARIABLES
  pc,             \* where main is
  task,           \* the four async tasks get_value<XX_FILE>: "running", "ready", "failed"
  today,          \* main's today
  hd_file,        \* main's hd_file, once the HD task is ready
  expired_ids,    \* main's expired_ids
  cancelled_ids,  \* main's cancelled_ids
  outfile,        \* main's outfile
  n_read,         \* how many records of AM.dat, CO.dat and EN.dat main has gone through,
                  \* plus the records of hd_file
  hd_pos,         \* how many records of hd_file the last statement of the merge has gone through
  kind,           \* the file of the record main went through last ("" before the first)
  rec,            \* that record
  am_added,       \* the IDs of the AM records handed to operator+= so far
  iter_order,     \* the order in which to_string's first loop visited outfile
  output_map,     \* to_string's output_map
  cout,           \* what was written to cout
  cerr,           \* what was written to cerr
  call1, call2, call3,  \* arguments of compare_calls
  lt,             \* results of compare_calls on them
  load,           \* where the dat_file constructor (or a dat_record on its own) is
  file_text,      \* what read_file returned
  lines,          \* the constructor's lines
  n,              \* its loop index
  this_record,    \* its this_record; the argument of a dat_record constructed on its own
  consumed,       \* for each this_record completed so far, the indices of lines it was made of
  records,        \* the dat_file under construction
  result,         \* how the constructor ended, and the dat_file it returned
  dr,             \* how the last dat_record constructor ended, and its _data
  text,           \* dr.to_string()
  dr2             \* how dat_record(text) ended, and its _data

vars == <<pc, task, today, hd_file, expired_ids, cancelled_ids, outfile, n_read, hd_pos,
          kind, rec, am_added, iter_order, output_map, cout, cerr, call1, call2, call3, lt,
          load, file_text, lines, n, this_record, consumed, records, result, dr, text, dr2>>

runVars == <<pc, task, today, hd_file, expired_ids, cancelled_ids, outfile, n_read, hd_pos,
             kind, rec, am_added, iter_order, output_map, cout, cerr>>
cmpVars == <<call1, call2, call3, lt>>
loadVars == <<load, file_text, lines, n, this_record, consumed, records, result, dr, text, dr2>>
idleVars == <<cmpVars, loadVars>>

Files == {"AM", "CO", "EN", "HD"}
Ended == {"done", "exit", "terminate"}

BoundedSeqs(S, max) == UNION {[1..len -> S] : len \in 0..max}

\* what a failing get_value<XX_FILE> writes to cerr before it throws
LoadErrors == {"Cannot open file: ", "Caught exception while processing file: "}

InitRun ==
  /\ pc = "get_hd"
  /\ task = [f \in Files |-> "running"]
  /\ today \in Todays
  /\ hd_file = <<>>
  /\ expired_ids = {}
  /\ cancelled_ids = {}
  /\ outfile = <<>>
  /\ n_read = 0
  /\ hd_pos = 0
  /\ kind = ""
  /\ rec = <<>>
  /\ am_added = {}
  /\ iter_order = <<>>
  /\ output_map = <<>>
  /\ cout = <<>>
  /\ cerr = <<>>

InitCmpIdle ==
  /\ call1 = <<>>
  /\ call2 = <<>>
  /\ call3 = <<>>
  /\ lt = [p \in {} |-> FALSE]

\* no dat_file and no dat_record is being constructed
InitLoadIdle ==
  /\ load = "idle"
  /\ file_text = <<>>
  /\ lines = <<>>
  /\ n = 0
  /\ this_record = <<>>
  /\ consumed = <<>>
  /\ records = <<>>
  /\ result = <<>>
  /\ dr = <<>>
  /\ text = <<>>
  /\ dr2 = <<>>

\* a task get_value<XX_FILE> returns its file; HD.dat holds at most max records of sample
LoadDoneFrom(f, sample, max) ==
  /\ pc \notin Ended
  /\ task[f] = "running"
  /\ task' = [task EXCEPT ![f] = "ready"]
  /\ IF f = "HD"
       THEN /\ hd_file' \in BoundedSeqs(sample, max)
            /\ n_read' = Len(hd_file')
       ELSE UNCHANGED <<hd_file, n_read>>
  /\ UNCHANGED <<pc, today, expired_ids, cancelled_ids, outfile, hd_pos, kind, rec,
                 am_added, iter_order, output_map, cout, cerr>>

LoadDone(f) == LoadDoneFrom(f, HDSample, MaxRecs)

\* a task get_value<XX_FILE> throws (read_file or the dat_file constructor)
LoadFail(f) ==
  /\ pc \notin Ended
  /\ task[f] = "running"
  /\ task' = [task EXCEPT ![f] = "failed"]
  /\ \/ \E why \in LoadErrors : cerr' = Append(cerr, <<why, f>>)
     \/ UNCHANGED cerr   \* the out_of_range of remove_leading passes the catch of dat_file
  /\ UNCHANGED <<pc, today, hd_file, expired_ids, cancelled_ids, outfile, n_read, hd_pos,
                 kind, rec, am_added, iter_order, output_map, cout>>

\* a future::get that does not wait for the task
Get_NoWait(at, f, then) ==
  /\ pc = at
  /\ pc' = IF task[f] = "failed" THEN "terminate" ELSE then
  /\ UNCHANGED <<task, today, hd_file, expired_ids, cancelled_ids, outfile, n_read, hd_pos,
                 kind, rec, am_added, iter_order, output_map, cout, cerr>>

\* a future::get that swallows what the task threw
Get_IgnoresFailure(at, f, then) ==
  /\ pc = at
  /\ task[f] # "running"
  /\ pc' = then
  /\ UNCHANGED <<task, today, hd_file, expired_ids, cancelled_ids, outfile, n_read, hd_pos,
                 kind, rec, am_added, iter_order, output_map, cout, cerr>>

\* future::get of main: waits for the task; rethrows what it threw, which nothing catches
Get(at, f, then) ==
  /\ pc = at
  /\ task[f] # "running"
  /\ pc' = IF task[f] = "ready" THEN then ELSE "terminate"
  /\ UNCHANGED <<task, today, hd_file, expired_ids, cancelled_ids, outfile, n_read, hd_pos,
                 kind, rec, am_added, iter_order, output_map, cout, cerr>>

\* the lambdas expired and cancelled, for a date transform_date accepts
Before(date) == date # <<>> /\ StrLess(transform_date(date), today)

\* the IDs of the records of file whose date field is before today; the first
\* non-empty date transform_date rejects ends the run instead
RejectedDates(file, field) ==
  {i \in 1..Len(file) : file[i][field] # <<>> /\ ~DateOk(file[i][field])}

IdsBefore(file, field) ==
  {file[i]["ID"] : i \in {j \in 1..Len(file) : Before(file[j][field])}}

FirstRejected(file, field) ==
  file[CHOOSE i \in RejectedDates(file, field) :
         \A j \in RejectedDates(file, field) : i <= j][field]

\* const unordered_set<string> expired_ids { ... }
ComputeExpired ==
  /\ pc = "expired"
  /\ IF RejectedDates(hd_file, "EXPIRED_DATE") # {}
       THEN /\ pc' = "exit"
            /\ cout' = Append(cout, <<"Error in date: *",
                                      FirstRejected(hd_file, "EXPIRED_DATE"), "*">>)
            /\ UNCHANGED expired_ids
       ELSE /\ pc' = "cancelled"
            /\ expired_ids' = IdsBefore(hd_file, "EXPIRED_DATE")
            /\ UNCHANGED cout
  /\ UNCHANGED <<task, today, hd_file, cancelled_ids, outfile, n_read, hd_pos, kind, rec,
                 am_added, iter_order, output_map, cerr>>

\* const unordered_set<string> cancelled_ids { ... }
ComputeCancelled ==
  /\ pc = "cancelled"
  /\ IF RejectedDates(hd_file, "CANCELLATION_DATE") # {}
       THEN /\ pc' = "exit"
            /\ cout' = Append(cout, <<"Error in date: *",
                                      FirstRejected(hd_file, "CANCELLATION_DATE"), "*">>)
            /\ UNCHANGED cancelled_ids
       ELSE /\ pc' = "get_am"
            /\ cancelled_ids' = IdsBefore(hd_file, "CANCELLATION_DATE")
            /\ UNCHANGED cout
  /\ UNCHANGED <<task, today, hd_file, expired_ids, outfile, n_read, hd_pos, kind, rec,
                 am_added, iter_order, output_map, cerr>>

\* unexpired that lets every record through
unexpired_All(r, order) == TRUE

\* the lambdas unexpired and uncancelled: rec[1] is the second field of every layout
unexpired(r, order) == r[order[2]] \notin expired_ids
uncancelled(r, order) == r[order[2]] \notin cancelled_ids

\* operator+= on a record of file f
Add(f, file, r) ==
  CASE f = "AM" -> AddAM(file, r)
    [] f = "CO" -> AddCO(file, r)
    [] f = "EN" -> AddEN(file, r)
    [] f = "HD" -> AddHD(file, r)

Layout(f) ==
  CASE f = "AM" -> AM_ORDER [] f = "CO" -> CO_ORDER [] f = "EN" -> EN_ORDER [] f = "HD" -> HD_ORDER

\* outfile += (file | filter(unexpired) | filter(uncancelled)), for its next record r:
\* a record the filters drop is passed over, any other is handed to operator+=
Through(f, r) ==
  /\ kind' = f
  /\ rec' = r
  /\ IF unexpired(r, Layout(f)) /\ uncancelled(r, Layout(f))
       THEN LET res == Add(f, outfile, r)
            IN /\ outfile' = res.file
               /\ cout' = cout \o res.out
               /\ cerr' = cerr \o res.err
               /\ pc' = IF res.how = "exit" THEN "exit" ELSE pc
               /\ am_added' = IF f = "AM" THEN am_added \cup {r["ID"]} ELSE am_added
       ELSE UNCHANGED <<outfile, cout, cerr, pc, am_added>>
  /\ UNCHANGED <<task, today, hd_file, expired_ids, cancelled_ids, iter_order, output_map>>

\* the next record of AM.dat, CO.dat or EN.dat, the four files holding max records at most
AddNextUpTo(at, f, sample, max) ==
  /\ pc = at
  /\ n_read < max
  /\ n_read' = n_read + 1
  /\ UNCHANGED hd_pos
  /\ \E r \in sample : Through(f, r)

AddNext(at, f, sample) == AddNextUpTo(at, f, sample, MaxRecs)

\* the end of AM.dat, CO.dat or EN.dat
EndOfFile(at, then) ==
  /\ pc = at
  /\ pc' = then
  /\ UNCHANGED <<task, today, hd_file, expired_ids, cancelled_ids, outfile, n_read, hd_pos,
                 kind, rec, am_added, iter_order, output_map, cout, cerr>>

\* the next record of hd_file
AddNextHD ==
  /\ pc = "add_hd"
  /\ hd_pos < Len(hd_file)
  /\ hd_pos' = hd_pos + 1
  /\ UNCHANGED n_read
  /\ Through("HD", hd_file[hd_pos + 1])

\* the end of hd_file
EndOfHD ==
  /\ pc = "add_hd"
  /\ hd_pos = Len(hd_file)
  /\ pc' = "validate"
  /\ UNCHANGED <<task, today, hd_file, expired_ids, cancelled_ids, outfile, n_read, hd_pos,
                 kind, rec, am_added, iter_order, output_map, cout, cerr>>

\* outfile.validate()
Validate ==
  /\ pc = "validate"
  /\ outfile' = validate(outfile)
  /\ pc' = "to_string"
  /\ UNCHANGED <<task, today, hd_file, expired_ids, cancelled_ids, n_read, hd_pos, kind, rec,
                 am_added, iter_order, output_map, cout, cerr>>

\* cout << outfile.to_string() << endl, and the return from main
WriteOutput ==
  /\ pc = "to_string"
  /\ \E o \in IterationOrders(outfile) :
       \E m \in InsertAllFrom(<<>>, outfile, o, 1) :
         /\ iter_order' = o
         /\ output_map' = m
         /\ cout' = Append(cout, BuildString(m, 1) \o <<"\n">>)
  /\ pc' = "done"
  /\ UNCHANGED <<task, today, hd_file, expired_ids, cancelled_ids, outfile, n_read, hd_pos,
                 kind, rec, am_added, cerr>>

\* a main that takes hd_file before the task of HD.dat has ended
GetHD_NoWait == Get_NoWait("get_hd", "HD", "expired") /\ UNCHANGED idleVars

GetHD == Get("get_hd", "HD", "expired") /\ UNCHANGED idleVars
Expired == ComputeExpired /\ UNCHANGED idleVars
Cancelled == ComputeCancelled /\ UNCHANGED idleVars
GetAM == Get("get_am", "AM", "add_am") /\ UNCHANGED idleVars
AddNextAM == AddNext("add_am", "AM", AMSample) /\ UNCHANGED idleVars
EndOfAM == EndOfFile("add_am", "get_co") /\ UNCHANGED idleVars
GetCO == Get("get_co", "CO", "add_co") /\ UNCHANGED idleVars
AddNextCO == AddNext("add_co", "CO", COSample) /\ UNCHANGED idleVars
\* a main whose CO statement is followed by the AM statement again
EndOfCO_ThenAM == EndOfFile("add_co", "add_am") /\ UNCHANGED idleVars
EndOfCO == EndOfFile("add_co", "get_en") /\ UNCHANGED idleVars
GetEN == Get("get_en", "EN", "add_en") /\ UNCHANGED idleVars
AddNextEN == AddNext("add_en", "EN", ENSample) /\ UNCHANGED idleVars
EndOfEN == EndOfFile("add_en", "add_hd") /\ UNCHANGED idleVars
AddNextHDRecord == AddNextHD /\ UNCHANGED idleVars
EndOfHDFile == EndOfHD /\ UNCHANGED idleVars
ValidateOutfile == Validate /\ UNCHANGED idleVars
Output == WriteOutput /\ UNCHANGED idleVars

\* main is at the future::get of the task of file f
Awaited(f) ==
  \/ f = "HD" /\ pc = "get_hd"
  \/ f = "AM" /\ pc = "get_am"
  \/ f = "CO" /\ pc = "get_co"
  \/ f = "EN" /\ pc = "get_en"

\* The tasks share nothing with main and with each other but the order of the lines on
\* cerr; Spec lets a task end when main waits for it.
TaskDone == \E f \in Files : Awaited(f) /\ LoadDone(f) /\ UNCHANGED idleVars
TaskFail == \E f \in Files : Awaited(f) /\ LoadFail(f) /\ UNCHANGED idleVars

Next ==
  \/ TaskDone
  \/ TaskFail
  \/ GetHD
  \/ Expired
  \/ Cancelled
  \/ GetAM
  \/ AddNextAM
  \/ EndOfAM
  \/ GetCO
  \/ AddNextCO
  \/ EndOfCO
  \/ GetEN
  \/ AddNextEN
  \/ EndOfEN
  \/ AddNextHDRecord
  \/ EndOfHDFile
  \/ ValidateOutfile
  \/ Output

Init == InitRun /\ InitCmpIdle /\ InitLoadIdle

Spec == Init /\ [][Next]_vars


\* ------------------------------------------------------------------------
\* compare_calls on its own
\* ------------------------------------------------------------------------

\* longest callsign drawn
MaxCallLen == 2

\* the characters callsigns are drawn from: letters, digits, the zero, '/', and two of the
\* characters compchar leaves to the character codes, one below the digits, one above
CallChars == {"A", "B", "1", "2", "0", "/", "-", ":"}

CallStrings == BoundedSeqs(CallChars, MaxCallLen)

\* the callsigns the documentation of the order names
N1A1 == <<"N", "1", "A", "1">>
N1A0 == <<"N", "1", "A", "0">>
N1A == <<"N", "1", "A">>
N1AM == <<"N", "1", "A", "/", "M">>
K1A0 == <<"K", "1", "A", "0">>
W1AW == <<"W", "1", "A", "W">>
W1AA == <<"W", "1", "A", "A">>

NamedCalls == {N1A1, N1A0, N1A, N1AM, K1A, K1A0, W1AW, W1AA}

\* main is not running
InitRunIdle ==
  /\ pc = "idle"
  /\ task = [f \in Files |-> "running"]
  /\ today = <<>>
  /\ hd_file = <<>>
  /\ expired_ids = {}
  /\ cancelled_ids = {}
  /\ outfile = <<>>
  /\ n_read = 0
  /\ hd_pos = 0
  /\ kind = ""
  /\ rec = <<>>
  /\ am_added = {}
  /\ iter_order = <<>>
  /\ output_map = <<>>
  /\ cout = <<>>
  /\ cerr = <<>>

InitCmp ==
  /\ InitRunIdle
  /\ InitLoadIdle
  /\ call1 \in CallStrings \cup NamedCalls
  /\ call2 \in CallStrings \cup NamedCalls
  /\ call3 = <<>>
  /\ lt = <<>>

\* compare_calls(call1, call2) and compare_calls(call2, call1)
CompareCalls ==
  /\ lt = <<>>
  /\ lt' = [ab |-> compare_calls(call1, call2), ba |-> compare_calls(call2, call1)]
  /\ UNCHANGED <<call1, call2, call3>>
  /\ UNCHANGED runVars
  /\ UNCHANGED loadVars

NextCmp == CompareCalls

SpecCmp == InitCmp /\ [][NextCmp]_vars

\* three callsigns of one character at most
InitCmp3 ==
  /\ InitRunIdle
  /\ InitLoadIdle
  /\ call1 \in BoundedSeqs(CallChars, MaxCallLen - 1)
  /\ call2 \in BoundedSeqs(CallChars, MaxCallLen - 1)
  /\ call3 \in BoundedSeqs(CallChars, MaxCallLen - 1)
  /\ lt = <<>>

\* compare_calls on each pair of call1, call2, call3
CompareCalls3 ==
  /\ lt = <<>>
  /\ lt' = [aa |-> compare_calls(call1, call1),
            ab |-> compare_calls(call1, call2), ba |-> compare_calls(call2, call1),
            bc |-> compare_calls(call2, call3), ac |-> compare_calls(call1, call3)]
  /\ UNCHANGED <<call1, call2, call3>>
  /\ UNCHANGED runVars
  /\ UNCHANGED loadVars

NextCmp3 == CompareCalls3

SpecCmp3 == InitCmp3 /\ [][NextCmp3]_vars


\* ------------------------------------------------------------------------
\* fcc_file::to_string on its own
\* ------------------------------------------------------------------------

\* most records in outfile when to_string is called
MaxStore == 4

Digits == <<"1", "2", "3", "4", "5", "6", "7", "8", "9">>

\* the IDs and the callsigns of the AM records outfile was built from: a letter, a digit,
\* and a character compchar leaves to the character codes
OutIDs == {<<Digits[i]>> : i \in 1..MaxStore}
OutCalls == {<<"A">>, <<"1">>, <<":">>}

\* outfile after outfile += am_file, for an AM file with one record per ID of cs,
\* the record of ID id having the callsign cs[id]
MergedFromAM(cs) ==
  [id \in DOMAIN cs |-> AddAM(<<>>, AMRec(id, cs[id], <<"E">>)).file[id]]

\* main has validated outfile; CO.dat, EN.dat and HD.dat were empty
InitOut ==
  /\ pc = "to_string"
  /\ task = [f \in Files |-> "ready"]
  /\ today = <<"2", "0", "2", "5", "-", "0", "6", "-", "1", "5">>
  /\ hd_file = <<>>
  /\ expired_ids = {}
  /\ cancelled_ids = {}
  /\ outfile \in {MergedFromAM(cs) : cs \in UNION {[S -> OutCalls] : S \in SUBSET OutIDs}}
  /\ n_read = Cardinality(DOMAIN outfile)
  /\ hd_pos = 0
  /\ kind = ""
  /\ rec = <<>>
  /\ am_added = DOMAIN outfile
  /\ iter_order = <<>>
  /\ output_map = <<>>
  /\ cout = <<>>
  /\ cerr = <<>>
  /\ InitCmpIdle
  /\ InitLoadIdle

NextOut == Output

SpecOut == InitOut /\ [][NextOut]_vars


\* ------------------------------------------------------------------------
\* dat_record on its own
\* ------------------------------------------------------------------------

\* longest string a dat_record is constructed from
MaxStrLen == 4

\* a lower-case letter, an upper-case letter, the delimiter, the space
RecordChars == {"a", "B", "|", " "}

InitRecord ==
  /\ InitRunIdle
  /\ InitCmpIdle
  /\ load = "record"
  /\ file_text = <<>>
  /\ lines = <<>>
  /\ n = 0
  /\ this_record \in BoundedSeqs(RecordChars, MaxStrLen)
  /\ consumed = <<>>
  /\ records = <<>>
  /\ result = <<>>
  /\ dr = <<>>
  /\ text = <<>>
  /\ dr2 = <<>>

\* dat_record<T> dr { this_record }
ConstructRecord ==
  /\ load = "record"
  /\ dr' = dat_record(this_record)
  /\ load' = IF dr'.ok THEN "to_string" ELSE "thrown"
  /\ UNCHANGED <<file_text, lines, n, this_record, consumed, records, result, text, dr2>>
  /\ UNCHANGED <<runVars, cmpVars>>

\* dr.to_string()
RecordToString ==
  /\ load = "to_string"
  /\ text' = data_to_string(dr.v)
  /\ load' = "again"
  /\ UNCHANGED <<file_text, lines, n, this_record, consumed, records, result, dr, dr2>>
  /\ UNCHANGED <<runVars, cmpVars>>

\* dat_record<T> dr2 { dr.to_string() }
ConstructAgain ==
  /\ load = "again"
  /\ dr2' = dat_record(text)
  /\ load' = "both"
  /\ UNCHANGED <<file_text, lines, n, this_record, consumed, records, result, dr, text>>
  /\ UNCHANGED <<runVars, cmpVars>>

NextRecord ==
  \/ ConstructRecord
  \/ RecordToString
  \/ ConstructAgain

SpecRecord == InitRecord /\ [][NextRecord]_vars


\* ------------------------------------------------------------------------
\* The dat_file constructor on its own
\* ------------------------------------------------------------------------

\* longest file read
MaxTextLen == 5

\* a letter, the delimiter, the space, the line feed, the carriage return
TextChars == {"a", "|", " ", "\n", "\r"}

\* the constructor's fn
fn == "AM.dat"

InitLoad ==
  /\ InitRunIdle
  /\ InitCmpIdle
  /\ load = "read_file"
  /\ file_text \in BoundedSeqs(TextChars, MaxTextLen)
  /\ lines = <<>>
  /\ n = 0
  /\ this_record = <<>>
  /\ consumed = <<>>
  /\ records = <<>>
  /\ result = <<>>
  /\ dr = <<>>
  /\ text = <<>>
  /\ dr2 = <<>>

\* the condition of the while loop, with <= for <
while_more_OrEqual(rcd, idx, lns) ==
  count(rcd, "|") <= N_FIELDS - 1 /\ idx < Len(lns) - 1

\* the condition of the while loop, for this_record rcd, index idx and lines lns
while_more(rcd, idx, lns) ==
  count(rcd, "|") < N_FIELDS - 1 /\ idx < Len(lns) - 1

\* std::vector<std::string> lines { to_lines(remove_char(read_file(fn), '\r')) }
ReadLines ==
  /\ load = "read_file"
  /\ lines' = to_lines(remove_char(file_text, "\r"))
  /\ n' = 0
  /\ load' = "for"
  /\ UNCHANGED <<file_text, this_record, consumed, records, result, dr, text, dr2>>
  /\ UNCHANGED <<runVars, cmpVars>>

\* the for loop goes on: std::string this_record { lines[n] }
NextLine ==
  /\ load = "for"
  /\ n < Len(lines)
  /\ this_record' = lines[n + 1]
  /\ consumed' = Append(consumed, <<n + 1>>)
  /\ load' = "while"
  /\ UNCHANGED <<file_text, lines, n, records, result, dr, text, dr2>>
  /\ UNCHANGED <<runVars, cmpVars>>

\* this_record += ("<LF>"s + lines[++n])
AppendLine ==
  /\ load = "while"
  /\ while_more(this_record, n, lines)
  /\ n' = n + 1
  /\ this_record' = this_record \o LF_MARK \o lines[n + 2]
  /\ consumed' = [consumed EXCEPT ![Len(consumed)] = Append(@, n + 2)]
  /\ UNCHANGED <<load, file_text, lines, records, result, dr, text, dr2>>
  /\ UNCHANGED <<runVars, cmpVars>>

\* the try block: dat_record<T> dr { remove_peripheral_spaces(this_record) } and
\* push_back(dr), then ++n; the catch of std::range_error writes to cerr and rethrows;
\* any other exception leaves the constructor as it is
PushRecord ==
  /\ load = "while"
  /\ ~while_more(this_record, n, lines)
  /\ LET trimmed == remove_peripheral_spaces(this_record)
         made == IF trimmed.ok THEN dat_record(trimmed.v) ELSE trimmed
     IN /\ dr' = IF trimmed.ok THEN made ELSE dr
        /\ IF made.ok
             THEN /\ records' = Append(records, made.v)
                  /\ n' = n + 1
                  /\ load' = "for"
                  /\ UNCHANGED <<result, cerr>>
             ELSE /\ records' = <<>>
                  /\ result' = made
                  /\ load' = "thrown"
                  /\ cerr' = IF made.what = "range_error"
                               THEN Append(cerr, <<"Caught exception while processing file: ", fn>>)
                               ELSE cerr
                  /\ UNCHANGED n
  /\ UNCHANGED <<file_text, lines, this_record, consumed, text, dr2>>
  /\ UNCHANGED <<pc, task, today, hd_file, expired_ids, cancelled_ids, outfile, n_read, hd_pos,
                 kind, rec, am_added, iter_order, output_map, cout>>
  /\ UNCHANGED cmpVars

\* the for loop ends and the constructor returns
EndOfLines ==
  /\ load = "for"
  /\ n >= Len(lines)
  /\ result' = Returned(records)
  /\ load' = "done"
  /\ UNCHANGED <<file_text, lines, n, this_record, consumed, records, dr, text, dr2>>
  /\ UNCHANGED <<runVars, cmpVars>>

NextLoad ==
  \/ ReadLines
  \/ NextLine
  \/ AppendLine
  \/ PushRecord
  \/ EndOfLines

SpecLoad == InitLoad /\ [][NextLoad]_vars


\* ------------------------------------------------------------------------
\* The run of main on records with dates before, on and after today, and malformed
\* ------------------------------------------------------------------------

\* most records the four files hold together in these runs
MaxDated == 2

DayBefore == <<"1", "2", "/", "3", "1", "/", "2", "0", "1", "9">>
SameDay == PastDate
DayAfter == <<"0", "2", "/", "0", "1", "/", "2", "0", "2", "0">>

HDDated(id, expired, cancelled, grant) ==
  [HDRec(id, K1A, <<"A">>, expired, cancelled) EXCEPT !["GRANT_DATE"] = grant]

AMDatedSample == {AMRec(id, K1A, <<"E">>) : id \in IDs}
CODatedSample == {CORec(id, K1A, date, <<"X">>) : id \in IDs, date \in {<<>>, SameDay, BadDate}}
ENDatedSample == {ENRec(id, K1A, <<"X">>, date) : id \in IDs, date \in {<<>>, BadDate}}
HDDatedSample ==
  {HDDated(id, x[1], x[2], x[3]) :
     id \in IDs,
     x \in {<<<<>>, <<>>, <<>>>>,
            <<DayBefore, <<>>, <<>>>>, <<SameDay, <<>>, <<>>>>, <<DayAfter, <<>>, <<>>>>,
            <<<<>>, DayBefore, <<>>>>, <<<<>>, SameDay, <<>>>>, <<<<>>, DayAfter, <<>>>>,
            <<BadDate, <<>>, <<>>>>, <<<<>>, BadDate, <<>>>>, <<<<>>, <<>>, BadDate>>}}

\* today is the day of SameDay
InitDated ==
  /\ InitRun
  /\ today = <<"2", "0", "2", "0", "-", "0", "1", "-", "0", "2">>
  /\ InitCmpIdle
  /\ InitLoadIdle

DatedTaskDone ==
  \E f \in Files : Awaited(f) /\ LoadDoneFrom(f, HDDatedSample, MaxDated) /\ UNCHANGED idleVars
DatedAddNextAM == AddNextUpTo("add_am", "AM", AMDatedSample, MaxDated) /\ UNCHANGED idleVars
DatedAddNextCO == AddNextUpTo("add_co", "CO", CODatedSample, MaxDated) /\ UNCHANGED idleVars
DatedAddNextEN == AddNextUpTo("add_en", "EN", ENDatedSample, MaxDated) /\ UNCHANGED idleVars

NextDated ==
  \/ DatedTaskDone
  \/ GetHD
  \/ Expired
  \/ Cancelled
  \/ GetAM
  \/ DatedAddNextAM
  \/ EndOfAM
  \/ GetCO
  \/ DatedAddNextCO
  \/ EndOfCO
  \/ GetEN
  \/ DatedAddNextEN
  \/ EndOfEN
  \/ AddNextHDRecord
  \/ EndOfHDFile
  \/ ValidateOutfile
  \/ Output

SpecDated == InitDated /\ [][NextDated]_vars


\* ------------------------------------------------------------------------
\* The run of main with tasks that end at any time
\* ------------------------------------------------------------------------

\* most records the four files hold together
MaxAsync == 2

\* the records HD.dat is made of in these runs: those of one callsign
HDAsyncSample == {r \in HDSample : r["CALLSIGN"] = K1A}

\* std::async(std::launch::async, ...): each task runs on a thread of its own from the
\* start, and ends or throws whenever it does, whatever main is doing
AsyncTaskDone ==
  \E f \in Files : LoadDoneFrom(f, HDAsyncSample, MaxAsync) /\ UNCHANGED idleVars
AsyncTaskFail == \E f \in Files : LoadFail(f) /\ UNCHANGED idleVars

AsyncAddNextAM == AddNextUpTo("add_am", "AM", AMSample, MaxAsync) /\ UNCHANGED idleVars
AsyncAddNextCO == AddNextUpTo("add_co", "CO", COSample, MaxAsync) /\ UNCHANGED idleVars
AsyncAddNextEN == AddNextUpTo("add_en", "EN", ENSample, MaxAsync) /\ UNCHANGED idleVars

NextAsync ==
  \/ AsyncTaskDone
  \/ AsyncTaskFail
  \/ GetHD
  \/ Expired
  \/ Cancelled
  \/ GetAM
  \/ AsyncAddNextAM
  \/ EndOfAM
  \/ GetCO
  \/ AsyncAddNextCO
  \/ EndOfCO
  \/ GetEN
  \/ AsyncAddNextEN
  \/ EndOfEN
  \/ AddNextHDRecord
  \/ EndOfHDFile
  \/ ValidateOutfile
  \/ Output

SpecAsync == Init /\ [][NextAsync]_vars


\* ------------------------------------------------------------------------
\* Properties of the merge
\* ------------------------------------------------------------------------

\* exit status of the process, once it has ended
ExitCode == CASE pc = "done" -> 0 [] pc = "exit" -> 255 [] pc = "terminate" -> 134

\* this step takes main through the next record of file f: afterwards it is rec
Through_(f) ==
  /\ pc = CASE f = "AM" -> "add_am" [] f = "CO" -> "add_co" [] f = "EN" -> "add_en"
            [] f = "HD" -> "add_hd"
  /\ (n_read' = n_read + 1 \/ hd_pos' = hd_pos + 1)

\* the filters of main drop record r
Dropped(r) == r["ID"] \in expired_ids \cup cancelled_ids

\* the number a sequence of digits denotes
RECURSIVE NumberOf(_)
NumberOf(digits) ==
  IF digits = <<>> THEN 0
  ELSE 10 * NumberOf(SubSeq(digits, 1, Len(digits) - 1)) + (CharCode[digits[Len(digits)]] - 48)

\* the day MM/DD/YYYY is strictly earlier than the day YYYY-MM-DD
Earlier(us_date, iso) ==
  LET y1 == NumberOf(SubSeq(us_date, 7, 10))
      m1 == NumberOf(SubSeq(us_date, 1, 2))
      d1 == NumberOf(SubSeq(us_date, 4, 5))
      y2 == NumberOf(SubSeq(iso, 1, 4))
      m2 == NumberOf(SubSeq(iso, 6, 7))
      d2 == NumberOf(SubSeq(iso, 9, 10))
  IN y1 < y2 \/ (y1 = y2 /\ (m1 < m2 \/ (m1 = m2 /\ d1 < d2)))

\* the IDs of the H-records whose date in field is non-empty and strictly earlier than today
LapsedBy(field) ==
  {hd_file[i]["ID"] :
     i \in {j \in 1..Len(hd_file) :
              Len(hd_file[j][field]) = 10 /\ Earlier(hd_file[j][field], today)}}

LapsedIds == LapsedBy("EXPIRED_DATE") \cup LapsedBy("CANCELLATION_DATE")

\* C1 as written: whatever the kind of the record merged, a merged record that has a
\* callsign keeps it.
C1_CallsignNeverChanges ==
  [][\A k \in DOMAIN outfile :
       outfile[k]["CALLSIGN"] # <<>> =>
         k \in DOMAIN outfile' /\ outfile'[k]["CALLSIGN"] = outfile[k]["CALLSIGN"]]_vars

\* a step that leaves the callsigns alone and, if it takes main through a CO, EN or HD
\* record with another callsign than the merged record of its ID has, ends the run
C1_AnnotationStep ==
  pc \in {"add_co", "add_en", "add_hd"} =>
    \A k \in DOMAIN outfile :
      outfile[k]["CALLSIGN"] # <<>> =>
        /\ k \in DOMAIN outfile'
        /\ outfile'[k]["CALLSIGN"] = outfile[k]["CALLSIGN"]
        /\ \A f \in {"CO", "EN", "HD"} :
             (Through_(f) /\ rec'["ID"] = k /\ rec'["CALLSIGN"] # outfile[k]["CALLSIGN"])
               => pc' = "exit"

\* C1 amended: once a merged record has a callsign, no CO, EN or HD record changes it,
\* and a CO, EN or HD record for that ID with another callsign ends the run with
\* exit(-1). (An AM record overwrites the callsign.)
C1_AnnotationsNeverChangeCallsign == [][C1_AnnotationStep]_vars

\* a CO record with another callsign than the merged record's has ended the run
C1_Witness ==
  /\ pc = "exit"
  /\ kind = "CO"
  /\ rec["ID"] \in DOMAIN outfile
  /\ outfile[rec["ID"]]["CALLSIGN"] # <<>>
  /\ outfile[rec["ID"]]["CALLSIGN"] # rec["CALLSIGN"]

\* C2: the ID of an H-record whose expiration or cancellation date is before today is
\* never a key of outfile and never in the output, and from the first merge on the two
\* sets are what the H-records give.
C2_LapsedNeverMerged ==
  /\ \A id \in LapsedIds :
       /\ id \notin DOMAIN outfile
       /\ \A i \in 1..Len(output_map) : output_map[i][2]["ID"] # id
  /\ pc \in {"get_am", "add_am", "get_co", "add_co", "get_en", "add_en", "add_hd",
             "validate", "to_string", "done"} =>
       /\ expired_ids = LapsedBy("EXPIRED_DATE")
       /\ cancelled_ids = LapsedBy("CANCELLATION_DATE")

\* main has just gone through an AM record with a callsign whose ID an H-record has lapsed
C2_Witness ==
  /\ pc = "add_am"
  /\ kind = "AM"
  /\ rec["ID"] \in LapsedIds
  /\ rec["CALLSIGN"] # <<>>

\* a step after which, until validation, the keys of outfile are the IDs of the AM
\* records merged; a CO, EN or HD record leaves the keys alone and an AM record that
\* the filters let through adds its ID and nothing else
C3_KeysStep ==
  /\ pc \in {"add_co", "add_en", "add_hd"} => DOMAIN outfile' = DOMAIN outfile
  /\ (Through_("AM") /\ ~Dropped(rec')) =>
       /\ rec'["ID"] \in DOMAIN outfile'
       /\ DOMAIN outfile' \ {rec'["ID"]} = DOMAIN outfile \ {rec'["ID"]}
  /\ pc' \notin {"to_string", "done"} => DOMAIN outfile' = am_added'

\* C3: only the merge of an AM record creates a merged record, one under its ID; the
\* merge of a CO, EN or HD record never adds or removes a key; so after any sequence of
\* merges the keys of outfile are the IDs of the AM records merged.
C3_OnlyAMCreates == [][C3_KeysStep]_vars

\* main has gone through an EN record that the filters let through and whose ID is no
\* key of outfile, and outfile has keys
C3_Witness ==
  /\ pc = "add_en"
  /\ kind = "EN"
  /\ ~Dropped(rec)
  /\ rec["ID"] \notin DOMAIN outfile
  /\ DOMAIN outfile # {}

\* a step through a CO record that the filters let through and whose ID is no key of
\* outfile ends the run with exit(-1) and the key on cerr, and creates nothing; and a
\* run that has ended takes no step
C4_MissingKeyStep ==
  /\ (Through_("CO") /\ ~Dropped(rec') /\ rec'["ID"] \notin DOMAIN outfile) =>
       /\ pc' = "exit"
       /\ outfile' = outfile
       /\ cerr' = Append(cerr, <<"CO key ", rec'["ID"], " not in FCC file ">>)
       /\ cout' = cout
  /\ pc = "exit" => (ExitCode # 0 /\ runVars' = runVars)

\* C4: the merge of a CO record whose ID is no key of outfile ends the run with a
\* non-zero exit and a line on cerr that names the key; no record is created for the ID
\* and no merge, validation or output follows.
C4_MissingCOKeyIsFatal == [][C4_MissingKeyStep]_vars

\* a CO record whose ID is no key of outfile has ended the run
C4_Witness ==
  /\ pc = "exit"
  /\ kind = "CO"
  /\ ~Dropped(rec)
  /\ rec["ID"] \notin DOMAIN outfile
  /\ Len(cerr) > 0

\* a step through a CO, EN or HD record whose ID is a key of outfile and whose callsign
\* is not the merged record's ends the run and leaves outfile as it was
C5_MismatchStep ==
  \A f \in {"CO", "EN", "HD"} :
    (/\ Through_(f)
     /\ rec'["ID"] \in DOMAIN outfile
     /\ outfile[rec'["ID"]]["CALLSIGN"] # rec'["CALLSIGN"]) =>
       (pc' = "exit" /\ outfile' = outfile)

\* C5: for CO, EN and HD alike, when the merged record of the incoming record's ID exists
\* and has another callsign, the run ends and no field of the merged record has been
\* changed by the incoming record.
C5_MismatchAbortsUnchanged == [][C5_MismatchStep]_vars

\* an HD record with another callsign than the merged record of its ID has ended the run
C5_Witness ==
  /\ pc = "exit"
  /\ kind = "HD"
  /\ rec["ID"] \in DOMAIN outfile
  /\ outfile[rec["ID"]]["CALLSIGN"] # rec["CALLSIGN"]

\* a step through an EN or HD record whose ID is no key of outfile changes nothing of
\* outfile, writes nothing and leaves main in the same loop
C6_SkipStep ==
  \A f \in {"EN", "HD"} :
    (Through_(f) /\ rec'["ID"] \notin DOMAIN outfile) =>
      (outfile' = outfile /\ pc' = pc /\ cout' = cout /\ cerr' = cerr)

\* C6: the merge of an EN or HD record whose ID is no key of outfile returns without
\* error, leaves the whole of outfile as it was, and the run goes on to the next record.
C6_MissingKeyTolerated == [][C6_SkipStep]_vars

\* main has gone through an HD record that the filters let through and whose ID is no
\* key of outfile, while outfile holds a record
C6_Witness ==
  /\ pc = "add_hd"
  /\ kind = "HD"
  /\ ~Dropped(rec)
  /\ rec["ID"] \notin DOMAIN outfile
  /\ DOMAIN outfile # {}

\* validate erases the records without a callsign and only those, leaves the others as
\* they are, comes after the last merge and before to_string; the output holds no record
\* without a callsign
C7_ValidateStep ==
  /\ pc = "validate" =>
       /\ DOMAIN outfile' = {k \in DOMAIN outfile : outfile[k]["CALLSIGN"] # <<>>}
       /\ \A k \in DOMAIN outfile' : outfile'[k] = outfile[k]
       /\ pc' = "to_string"
  /\ pc' = "validate" => (pc = "add_hd" /\ hd_pos = Len(hd_file))
  /\ pc' = "to_string" => pc = "validate"
  /\ output_map' # output_map => pc = "to_string"
  /\ \A i \in 1..Len(output_map') : output_map'[i][2]["CALLSIGN"] # <<>>

\* C7: validation removes exactly the merged records whose callsign is empty and leaves
\* every other entry as it is; it runs after all merges and before the serialization, so
\* no record of the final output has an empty callsign.
C7_ValidationRemovesEmptyCallsigns == [][C7_ValidateStep]_vars

\* validation has removed a record and kept another
C7_Witness ==
  /\ pc = "to_string"
  /\ DOMAIN outfile # {}
  /\ DOMAIN outfile # am_added


\* ------------------------------------------------------------------------
\* Properties of compare_calls
\* ------------------------------------------------------------------------

\* C8: compare_calls is a strict total order: no callsign is before itself, two callsigns
\* are never each before the other, of two different callsigns one is before the other,
\* and a before b with b before c gives a before c.
C8_StrictTotalOrder ==
  lt # <<>> =>
    /\ ~lt.aa
    /\ ~(lt.ab /\ lt.ba)
    /\ (call1 # call2 => (lt.ab \/ lt.ba))
    /\ ((lt.ab /\ lt.bc) => lt.ac)

Min(S) == CHOOSE x \in S : \A y \in S : x <= y

\* the order as the documentation words it, on two different characters
RefCharBefore(x, y) ==
  CASE y = "/" -> TRUE
    [] x = "/" -> FALSE
    [] isalpha(x) /\ isdigit(y) -> TRUE
    [] isdigit(x) /\ isalpha(y) -> FALSE
    [] isdigit(x) /\ isdigit(y) ->
         IF x = "0" THEN FALSE
         ELSE IF y = "0" THEN TRUE
         ELSE CharCode[x] - CharCode["0"] < CharCode[y] - CharCode["0"]
    [] OTHER -> CharCode[x] < CharCode[y]

\* decided at the first position where a and b differ; a proper prefix comes first
RefBefore(a, b) ==
  LET common == IF Len(a) < Len(b) THEN Len(a) ELSE Len(b)
      differ == {i \in 1..common : a[i] # b[i]}
  IN IF differ = {} THEN Len(a) < Len(b)
     ELSE RefCharBefore(a[Min(differ)], b[Min(differ)])

FirstWith(c) ==
  outfile[iter_order[Min({i \in DOMAIN iter_order : outfile[iter_order[i]]["CALLSIGN"] = c})]]

\* C10: what to_string returns has one line for each callsign of outfile and no other,
\* the lines are in strictly increasing compare_calls order of callsign, and the line of
\* a callsign is the record of that callsign met first when outfile was iterated, in
\* FCC field order, followed by a newline.
C10_OneLinePerCallsignInOrder ==
  (pc = "done" /\ Len(cout) = 1) =>
    LET calls == {outfile[k]["CALLSIGN"] : k \in DOMAIN outfile}
    IN /\ Len(output_map) = Cardinality(calls)
       /\ {output_map[i][1] : i \in DOMAIN output_map} = calls
       /\ \A i \in 1..(Len(output_map) - 1) :
            compare_calls(output_map[i][1], output_map[i + 1][1])
       /\ \A i \in DOMAIN output_map : output_map[i][2] = FirstWith(output_map[i][1])
       /\ cout[1] = BuildString(output_map, 1) \o <<"\n">>


\* ------------------------------------------------------------------------
\* Properties of dat_record
\* ------------------------------------------------------------------------

\* how many delimiters a line holds
Delimiters(line) == Cardinality({i \in 1..Len(line) : line[i] = "|"})

\* the line with every character in upper case
Upper(line) == [i \in 1..Len(line) |-> IF line[i] = "a" THEN "A" ELSE line[i]]

\* C11: a dat_record is made from a line exactly when the line is not empty and holds
\* N_FIELDS - 1 delimiters; it then has N_FIELDS fields, none holding a delimiter, the
\* last one empty when the line ends in the delimiter; any other line throws
\* std::range_error and makes no record.
C11_ParsesIffFieldCount ==
  dr # <<>> =>
    /\ dr.ok <=> (this_record # <<>> /\ Delimiters(this_record) = N_FIELDS - 1)
    /\ dr.ok =>
         /\ Len(dr.v) = N_FIELDS
         /\ \A i \in 1..N_FIELDS : Delimiters(dr.v[i]) = 0
         /\ (this_record[Len(this_record)] = "|" => dr.v[N_FIELDS] = <<>>)
         /\ (this_record[1] = "|" => dr.v[1] = <<>>)
    /\ ~dr.ok => (dr.what = "range_error" /\ load = "thrown" /\ text = <<>>)

C11_Witness ==
  /\ load = "to_string"
  /\ dr.ok
  /\ this_record[Len(this_record)] = "|"
  /\ dr.v[N_FIELDS] = <<>>
  /\ dr.v[1] # <<>>

\* C12: for a line with N_FIELDS - 1 delimiters, the dat_record made from it has as
\* to_string the line in upper case; and the dat_record made from that string has the
\* same fields.
C12_RoundTrip ==
  /\ (dr # <<>> /\ Delimiters(this_record) = N_FIELDS - 1) => dr.ok
  /\ load \in {"again", "both"} => text = Upper(this_record)
  /\ load = "both" => (dr2.ok /\ dr2.v = dr.v)

C12_Witness ==
  /\ load = "both"
  /\ text # this_record
  /\ \E i \in 1..N_FIELDS : dr.v[i] = <<>>
  /\ dr2.ok


\* ------------------------------------------------------------------------
\* Properties of the dat_file constructor
\* ------------------------------------------------------------------------

RECURSIVE Flatten(_)
Flatten(groups) == IF groups = <<>> THEN <<>> ELSE Head(groups) \o Flatten(Tail(groups))

\* the lines of a group, the marker between them
RECURSIVE Joined(_)
Joined(group) ==
  IF Len(group) = 1 THEN lines[group[1]]
  ELSE Joined(SubSeq(group, 1, Len(group) - 1)) \o LF_MARK \o lines[group[Len(group)]]

\* the groups the constructor has finished with
Finished == IF load = "while" THEN SubSeq(consumed, 1, Len(consumed) - 1) ELSE consumed

\* C13: the logical records are made of the lines in order, each line in exactly one of
\* them; a logical record is its lines with "<LF>" between them; a line is appended only
\* while the text has fewer than N_FIELDS - 1 delimiters, and a logical record with
\* fewer ends only at the last line; the records of the file are those of the logical
\* records, in that order.
C13_Reassembly ==
  load \in {"for", "while", "done"} =>
    /\ Flatten(consumed) = [i \in 1..Len(Flatten(consumed)) |-> i]
    /\ load = "done" => Len(Flatten(consumed)) = Len(lines)
    /\ load = "while" => this_record = Joined(consumed[Len(consumed)])
    /\ \A g \in 1..Len(consumed) :
         /\ Len(consumed[g]) >= 1
         /\ Len(consumed[g]) > 1 =>
              Delimiters(Joined(SubSeq(consumed[g], 1, Len(consumed[g]) - 1))) < N_FIELDS - 1
    /\ \A g \in 1..Len(Finished) :
         \/ Delimiters(Joined(Finished[g])) >= N_FIELDS - 1
         \/ Finished[g][Len(Finished[g])] = Len(lines)
    /\ Len(records) = Len(Finished)
    /\ \A g \in 1..Len(Finished) :
         data_to_string(records[g]) =
           Upper(remove_trailing(remove_leading_Guarded(Joined(Finished[g]), " ").v, " "))

C13_Witness ==
  /\ load = "done"
  /\ Len(records) = 2
  /\ Len(consumed[1]) = 2
  /\ Len(lines) = 3

\* C14: when a logical record makes no dat_record (wrong number of fields, or empty or
\* all spaces), the constructor throws, a line naming the file has been written to cerr
\* and no dat_file exists; otherwise it returns the records of all the logical records.
C14_AllOrNothingWithDiagnostic ==
  /\ load = "thrown" =>
       /\ ~result.ok
       /\ records = <<>>
       /\ cerr = <<<<"Caught exception while processing file: ", fn>>>>
  /\ load = "done" =>
       /\ result.ok
       /\ cerr = <<>>
       /\ Len(result.v) = Len(consumed)
       /\ result.v = records


\* ------------------------------------------------------------------------
\* Properties of the dates
\* ------------------------------------------------------------------------

\* the IDs of the HD records whose date in field is not empty and strictly earlier than today
StrictlyEarlierIds(field) ==
  {id \in {hd_file[i]["ID"] : i \in 1..Len(hd_file)} :
     \E i \in 1..Len(hd_file) :
       /\ hd_file[i]["ID"] = id
       /\ hd_file[i][field] # <<>>
       /\ Earlier(hd_file[i][field], today)}

MalformedDate(date) == date # <<>> /\ Len(date) # 10

SomeMalformed(field) == \E i \in 1..Len(hd_file) : MalformedDate(hd_file[i][field])

\* C15: once computed, expired_ids holds an ID exactly when an HD record of that ID has
\* an expiry date that is not empty and strictly earlier than today (a date on or after
\* today, or an empty one, puts no ID in it); cancelled_ids likewise from the
\* cancellation date.
C15_ExclusionSetMembership ==
  /\ (pc \notin {"get_hd", "expired"} /\ ~SomeMalformed("EXPIRED_DATE")) =>
       expired_ids = StrictlyEarlierIds("EXPIRED_DATE")
  /\ (pc \notin {"get_hd", "expired", "cancelled"} /\ ~SomeMalformed("EXPIRED_DATE")
        /\ ~SomeMalformed("CANCELLATION_DATE")) =>
       cancelled_ids = StrictlyEarlierIds("CANCELLATION_DATE")

C15_Witness ==
  /\ pc = "get_am"
  /\ Len(hd_file) = 2
  /\ hd_file[1]["EXPIRED_DATE"] = SameDay
  /\ hd_file[2]["EXPIRED_DATE"] = DayBefore
  /\ expired_ids = {hd_file[2]["ID"]}
  /\ hd_file[1]["ID"] # hd_file[2]["ID"]

\* the date-valued fields of the records of a file
DateFields(f) ==
  CASE f = "CO" -> {"COMMENT_DATE", "STATUS_DATE"}
    [] f = "EN" -> {"STATUS_DATE"}
    [] f = "HD" -> {"GRANT_DATE", "EXPIRED_DATE", "CANCELLATION_DATE", "EFFECTIVE_DATE",
                    "LAST_ACTION_DATE"}
    [] OTHER -> {}

HasMalformedDate(f, r) == \E field \in DateFields(f) : MalformedDate(r[field])

\* C20 as written: a run that has gone through a record holding a malformed date does
\* not complete: when main returns, neither a record of hd_file nor the record gone
\* through last holds a date that is not empty and not 10 characters long.
C20_MalformedDateAlwaysFatal ==
  pc = "done" =>
    /\ \A i \in 1..Len(hd_file) : ~HasMalformedDate("HD", hd_file[i])
    /\ kind # "" => ~HasMalformedDate(kind, rec)

\* C20, amended: a malformed expiry or cancellation date of any HD record ends the run
\* when the exclusion sets are computed; a malformed date in a CO, EN or HD record that
\* passes the filters and whose ID is a key with the same callsign ends the run with
\* exit(-1) and "Error in date" on cout; a record the filters drop, or an EN or HD
\* record whose ID is no key, is passed over whatever its dates.
C20_MergedStep ==
  /\ pc = "expired" => (pc' = "exit" <=> SomeMalformed("EXPIRED_DATE"))
  /\ pc = "cancelled" => (pc' = "exit" <=> SomeMalformed("CANCELLATION_DATE"))
  /\ \A f \in {"CO", "EN", "HD"} :
       Through_(f) =>
         /\ (/\ HasMalformedDate(f, rec')
             /\ ~Dropped(rec')
             /\ rec'["ID"] \in DOMAIN outfile
             /\ outfile[rec'["ID"]]["CALLSIGN"] = rec'["CALLSIGN"]) =>
              /\ pc' = "exit"
              /\ Len(cout') = Len(cout) + 1
              /\ cout'[Len(cout')][1] = "Error in date: *"
         /\ (Dropped(rec') \/ (f # "CO" /\ rec'["ID"] \notin DOMAIN outfile)) =>
              /\ pc' = pc
              /\ outfile' = outfile
              /\ cout' = cout

C20_MalformedDateFatalWhenMerged == [][C20_MergedStep]_vars

C20_Witness ==
  /\ pc = "exit"
  /\ kind = "EN"
  /\ HasMalformedDate("EN", rec)
  /\ rec["ID"] \in DOMAIN outfile
  /\ cout # <<>>


\* ------------------------------------------------------------------------
\* Properties of the order of the merges
\* ------------------------------------------------------------------------

\* the place of a file in the four merge statements of main ("": none yet)
MergeRank(f) ==
  CASE f = "" -> 0 [] f = "AM" -> 1 [] f = "CO" -> 2 [] f = "EN" -> 3 [] f = "HD" -> 4

\* C16: outfile is changed, before validate, only by a step of main that takes exactly one
\* record of one file through the merge; the files follow each other in the order AM, CO,
\* EN, HD and none comes back; and when a CO, EN or HD record is merged, the keys of
\* outfile are the IDs of all the AM records that are ever merged: no AM record is merged
\* afterwards
C16_OrderStep ==
  /\ (outfile' # outfile /\ pc # "validate") => \E f \in Files : Through_(f)
  /\ \A f \in Files :
       Through_(f) =>
         /\ kind' = f
         /\ (n_read' + hd_pos') = (n_read + hd_pos) + 1
         /\ task' = task
         /\ MergeRank(kind) <= MergeRank(f)
         /\ \A g \in Files : (g # f) => ~Through_(g)
         /\ (f # "AM") => (DOMAIN outfile = am_added /\ am_added' = am_added)
  /\ (MergeRank(kind) >= 2) => (am_added' = am_added /\ pc' # "add_am")

C16_MergesInOrder == [][C16_OrderStep]_vars

\* an HD record is merged into a record made from an AM record, after two records of the
\* other files
C16_Witness ==
  /\ kind = "HD"
  /\ hd_pos >= 1
  /\ n_read - Len(hd_file) >= 2
  /\ am_added # {}
  /\ rec["ID"] \in am_added
  /\ rec["ID"] \in DOMAIN outfile
  /\ outfile[rec["ID"]]["LICENSE_STATUS"] = <<"A">>


\* ------------------------------------------------------------------------
\* Properties of the tasks and of the way the run ends
\* ------------------------------------------------------------------------

\* this step hands a record of file f to operator+=
Merges(f) == Through_(f) /\ kind' = f /\ rec' # <<>> /\ ~Dropped(rec')

\* C17 as written: when a record is merged into outfile, the four tasks have ended with
\* their files and the sets of expired and cancelled IDs have been computed
C17_AllLoadsStep ==
  \A f \in Files :
    Merges(f) =>
      /\ \A g \in Files : task[g] = "ready"
      /\ expired_ids = LapsedBy("EXPIRED_DATE")
      /\ cancelled_ids = LapsedBy("CANCELLATION_DATE")

C17_NoMergeBeforeAllLoads == [][C17_AllLoadsStep]_vars

\* C17, amended: when a record of a file is merged into outfile, the task of that file and
\* the task of HD.dat have ended with their files, and the sets of expired and cancelled
\* IDs have been computed from the whole of hd_file, which does not change any more; the
\* tasks of the files whose merge statement comes later may still be running
C17_OwnLoadStep ==
  \A f \in Files :
    Merges(f) =>
      /\ task[f] = "ready"
      /\ task["HD"] = "ready"
      /\ \A g \in Files : MergeRank(g) <= MergeRank(f) => task[g] = "ready"
      /\ expired_ids = LapsedBy("EXPIRED_DATE")
      /\ cancelled_ids = LapsedBy("CANCELLATION_DATE")
      /\ hd_file' = hd_file
      /\ expired_ids' = expired_ids
      /\ cancelled_ids' = cancelled_ids

C17_NoMergeBeforeOwnLoad == [][C17_OwnLoadStep]_vars

\* an AM record has been merged while the tasks of CO.dat and EN.dat are still running
C17_Witness ==
  /\ kind = "AM"
  /\ rec["ID"] \in DOMAIN outfile
  /\ task["CO"] = "running"
  /\ task["EN"] = "running"
  /\ task["HD"] = "ready"
  /\ hd_file # <<>>

\* C18: a task changes nothing but its own state, its line on cerr and, for HD.dat, the
\* file it returns, which is written once, by that task, as it ends; main reads the
\* records of a file, and hd_file, only when the task of the file has ended; and what main
\* holds (outfile and its records, the sets of IDs, the record at hand, cout) is changed by
\* steps of main only, during which no task changes state
C18_RaceStep ==
  /\ \A f \in Files :
       task'[f] # task[f] =>
         /\ task[f] = "running"
         /\ \A g \in Files : g # f => task'[g] = task[g]
         /\ UNCHANGED <<pc, today, expired_ids, cancelled_ids, outfile, hd_pos, kind, rec,
                        am_added, iter_order, output_map, cout>>
         /\ (hd_file' # hd_file) => (f = "HD" /\ task'[f] = "ready")
         /\ (cerr' # cerr) => (task'[f] = "failed" /\ Len(cerr') = Len(cerr) + 1
                                /\ cerr'[Len(cerr')][2] = f)
  /\ (hd_file' # hd_file) => (task["HD"] = "running" /\ task'["HD"] = "ready")
  /\ \A f \in Files : Through_(f) => (task[f] = "ready" /\ task' = task)
  /\ (pc \in {"expired", "cancelled", "add_hd"}) => task["HD"] = "ready"
  /\ (<<outfile, expired_ids, cancelled_ids, kind, rec, cout, pc>>'
        # <<outfile, expired_ids, cancelled_ids, kind, rec, cout, pc>>) => task' = task

C18_NoRace == [][C18_RaceStep]_vars

\* a CO record has changed a record of outfile while the task of EN.dat is still running
C18_Witness ==
  /\ kind = "CO"
  /\ pc = "add_co"
  /\ task["EN"] = "running"
  /\ rec["ID"] \in DOMAIN outfile
  /\ outfile[rec["ID"]]["COMMENT_DATE"] # <<>>

\* the places of main, in program order
PcOrder == <<"get_hd", "expired", "cancelled", "get_am", "add_am", "get_co", "add_co",
             "get_en", "add_en", "add_hd", "validate", "to_string", "done">>

PcRank(p) == CHOOSE i \in 1..Len(PcOrder) : PcOrder[i] = p

\* the place of the future::get of the task of file f
GetOf(f) ==
  CASE f = "HD" -> "get_hd" [] f = "AM" -> "get_am" [] f = "CO" -> "get_co" [] f = "EN" -> "get_en"

\* a line written just before exit(-1)
FatalLine(l) ==
  l[1] \in {"Error in date: *", "CO key ", "CO callsign ", "EN callsign ", "HD callsign "}

FatalLines(out) == {i \in 1..Len(out) : FatalLine(out[i])}

\* C19: the run ends with exit code 0 exactly after the four tasks have ended with their
\* files and nothing fatal was met, and then cout holds the output of to_string and
\* nothing else; a fatal line is written only as the run ends with exit(-1); main never
\* gets past the future::get of a task that failed, whatever the order in which the tasks
\* ended, and ends there with a non-zero code; and a run that ends with a non-zero code has
\* met a failed task or written a fatal line, and has written no record to cout
C19_RunOutcome ==
  /\ pc = "done" =>
       /\ ExitCode = 0
       /\ \A f \in Files : task[f] = "ready"
       /\ cerr = <<>>
       /\ cout = <<BuildString(output_map, 1) \o <<"\n">>>>
  /\ (FatalLines(cout) # {} \/ FatalLines(cerr) # {}) => pc = "exit"
  /\ \A f \in Files :
       task[f] = "failed" =>
         \/ pc \in {"exit", "terminate"}
         \/ PcRank(pc) <= PcRank(GetOf(f))
  /\ pc = "terminate" => \E f \in Files : task[f] = "failed"
  /\ pc = "exit" =>
       /\ Cardinality(FatalLines(cout)) + Cardinality(FatalLines(cerr)) = 1
       /\ (FatalLines(cout) = {Len(cout)} \/ FatalLines(cerr) = {Len(cerr)})
  /\ pc \in {"exit", "terminate"} =>
       /\ ExitCode # 0
       /\ iter_order = <<>>
       /\ output_map = <<>>
       /\ FatalLines(cout) = 1..Len(cout)

\* the task of EN.dat failed after AM and CO records were merged: the run ends where main
\* waits for it, and the records merged so far are not written
C19_Witness ==
  /\ pc = "terminate"
  /\ task["EN"] = "failed"
  /\ task["CO"] = "ready"
  /\ kind = "CO"
  /\ DOMAIN outfile # {}
  /\ cout = <<>>


\* ------------------------------------------------------------------------
\* Properties of '-' in compare_calls
\* ------------------------------------------------------------------------

\* the first position where a and b differ (0: none as far as the shorter goes)
FirstDiffering(a, b) ==
  LET common == IF Len(a) < Len(b) THEN Len(a) ELSE Len(b)
      differ == {i \in 1..common : a[i] # b[i]}
  IN IF differ = {} THEN 0 ELSE Min(differ)

\* C23: as the comment in compare_calls says, '-' comes after all digits and letters and
\* after '/': when call1 has a letter, a digit or '/' at the first position where the two
\* differ and call2 has '-' there, compare_calls(call1, call2) is true and
\* compare_calls(call2, call1) is false
C23_DashSortsLast ==
  (lt # <<>> /\ FirstDiffering(call1, call2) # 0) =>
    LET i == FirstDiffering(call1, call2)
    IN ((isalpha(call1[i]) \/ isdigit(call1[i]) \/ call1[i] = "/") /\ call2[i] = "-") =>
         (lt.ab /\ ~lt.ba)


\* ------------------------------------------------------------------------
\* Properties of the fields of the merged records
\* ------------------------------------------------------------------------

\* the date-valued fields of an FCC_RECORD
FccDateFields ==
  {"COMMENT_DATE", "CO_STATUS_DATE", "EN_STATUS_DATE", "GRANT_DATE", "EXPIRED_DATE",
   "CANCELLATION_DATE", "EFFECTIVE_DATE", "LAST_ACTION_DATE"}

\* the dates of the records the files of these runs are made of
SourceDates ==
  UNION {{r[f] : f \in DateFields("CO")} : r \in CODatedSample}
    \cup UNION {{r[f] : f \in DateFields("EN")} : r \in ENDatedSample}
    \cup UNION {{r[f] : f \in DateFields("HD")} : r \in HDDatedSample}

\* characters 7-10, '-', characters 1-2, '-', characters 4-5 of a date of 10 characters
Reformatted(s) == <<s[7], s[8], s[9], s[10], "-", s[1], s[2], "-", s[4], s[5]>>

\* a stored date: empty, or a source date of 10 characters in the new layout
StoredDateOk(d) ==
  \/ d = <<>>
  \/ /\ \E s \in SourceDates : Len(s) = 10 /\ d = Reformatted(s)
     /\ d \notin SourceDates

\* C22: every date-valued field of every record of outfile, and of every record written
\* out, is empty or is a source date of 10 characters rearranged as characters 7-10, '-',
\* 1-2, '-', 4-5; no date is stored as it is in the source; 01/02/2020 becomes 2020-01-02
C22_StoredDatesReformatted ==
  /\ \A k \in DOMAIN outfile : \A f \in FccDateFields : StoredDateOk(outfile[k][f])
  /\ \A i \in 1..Len(output_map) :
       \A f \in FccDateFields : StoredDateOk(output_map[i][2][f])
  /\ transform_date(PastDate) = <<"2", "0", "2", "0", "-", "0", "1", "-", "0", "2">>

\* the expiry date 02/01/2020 of an HD record is held as 2020-02-01 when main returns
C22_Witness ==
  /\ pc = "done"
  /\ kind = "HD"
  /\ rec["EXPIRED_DATE"] = DayAfter
  /\ rec["ID"] \in DOMAIN outfile
  /\ outfile[rec["ID"]]["EXPIRED_DATE"] = <<"2", "0", "2", "0", "-", "0", "2", "-", "0", "1">>
  /\ Len(output_map) = 1

\* the assignments of operator+= for a record of file f
OpsOf(f) ==
  CASE f = "AM" -> AM_OPS [] f = "CO" -> CO_OPS [] f = "EN" -> EN_OPS [] f = "HD" -> HD_OPS

\* what record r supplies for the field of assignment op
Supplied(op, r) == IF op[1] = "date" THEN Reformatted(r[op[3]]) ELSE r[op[3]]

\* this step merges a record of file f right after another record of f with the same ID
\* was merged, and returns
SecondOfTwo(f) ==
  /\ Merges(f)
  /\ kind = f
  /\ rec # <<>>
  /\ rec["ID"] = rec'["ID"]
  /\ ~Dropped(rec)
  /\ rec'["ID"] \in DOMAIN outfile
  /\ pc' # "exit"

\* C21 as written: first write wins; when both records supply a value for a field, the
\* field holds the value of the first record after the second merge
C21_FirstWriteStep ==
  \A f \in Files :
    SecondOfTwo(f) =>
      \A i \in 1..Len(OpsOf(f)) :
        LET op == OpsOf(f)[i]
        IN (rec[op[3]] # <<>> /\ rec'[op[3]] # <<>>) =>
             outfile'[rec'["ID"]][op[2]] = Supplied(op, rec)

C21_FirstWriteWins == [][C21_FirstWriteStep]_vars

\* C21, amended: last write wins; when both records supply a value for a field, the
\* field holds the value of the first record before the second merge and the value of
\* the second record after it
C21_LastWriteStep ==
  \A f \in Files :
    SecondOfTwo(f) =>
      \A i \in 1..Len(OpsOf(f)) :
        LET op == OpsOf(f)[i]
        IN (rec[op[3]] # <<>> /\ rec'[op[3]] # <<>>) =>
             /\ outfile[rec["ID"]][op[2]] = Supplied(op, rec)
             /\ outfile'[rec'["ID"]][op[2]] = Supplied(op, rec')

C21_LastWriteWins == [][C21_LastWriteStep]_vars

\* two AM records of one ID were merged, and the record holds the callsign of the second
C21_Witness ==
  /\ kind = "AM"
  /\ n_read - Len(hd_file) = 2
  /\ am_added = {rec["ID"]}
  /\ rec["CALLSIGN"] = K1B
  /\ outfile[rec["ID"]]["CALLSIGN"] = K1B
  /\ outfile[rec["ID"]]["OPERATOR_CLASS"] = <<"E">>

\* the fields of an FCC_RECORD that come from the records of file f: in enum FCC they
\* follow each other, AM's after ID and CALLSIGN, then CO's, EN's and HD's
FieldsFrom(f) ==
  CASE f = "AM" -> {FCC_ORDER[i] : i \in 3..13}
    [] f = "CO" -> {FCC_ORDER[i] : i \in 14..17}
    [] f = "EN" -> {FCC_ORDER[i] : i \in 18..36}
    [] f = "HD" -> {FCC_ORDER[i] : i \in 37..48}

\* what operator+= on a record of file f may assign
MayAssign(f) == IF f = "AM" THEN {"ID", "CALLSIGN"} \cup FieldsFrom(f) ELSE FieldsFrom(f)

\* every record is under its ID and has no LINKED_ID and no LINKED_CALLSIGN
KeyedByID(file) ==
  \A k \in DOMAIN file :
    /\ file[k]["ID"] = k
    /\ file[k]["LINKED_ID"] = <<>>
    /\ file[k]["LINKED_CALLSIGN"] = <<>>

\* C24: a step that takes a record with ID k through operator+= leaves every other record
\* of outfile as it is and removes none; for a CO, EN or HD record it adds none and
\* changes, in the record under k, only fields that come from that file (four for CO),
\* never ID or CALLSIGN; for an AM record it changes only ID, CALLSIGN and the fields that
\* come from AM. Every record of outfile is under its ID, with LINKED_ID and
\* LINKED_CALLSIGN empty, before and after every step
C24_FrameStep ==
  /\ Cardinality(FieldsFrom("CO")) = 4
  /\ KeyedByID(outfile)
  /\ KeyedByID(outfile')
  /\ \A f \in Files :
       (Through_(f) /\ kind' = f) =>
         LET k == rec'["ID"]
         IN /\ DOMAIN outfile \subseteq DOMAIN outfile'
            /\ DOMAIN outfile' \subseteq DOMAIN outfile \cup {k}
            /\ \A j \in DOMAIN outfile : j # k => outfile'[j] = outfile[j]
            /\ f # "AM" => DOMAIN outfile' = DOMAIN outfile
            /\ k \in DOMAIN outfile' =>
                 \A x \in Range(FCC_ORDER) \ MayAssign(f) :
                   outfile'[k][x] = IF k \in DOMAIN outfile THEN outfile[k][x] ELSE <<>>

C24_MergeFrame == [][C24_FrameStep]_vars

\* an HD record was merged into one of two records made from AM records: it has the
\* fields of both, under its ID, and the other record has no field of HD
C24_Witness ==
  /\ kind = "HD"
  /\ pc = "add_hd"
  /\ DOMAIN outfile = IDs
  /\ outfile[rec["ID"]]["LICENSE_STATUS"] = <<"A">>
  /\ outfile[rec["ID"]]["OPERATOR_CLASS"] = <<"E">>
  /\ outfile[rec["ID"]]["CALLSIGN"] = rec["CALLSIGN"]
  /\ \A j \in IDs \ {rec["ID"]} : outfile[j]["LICENSE_STATUS"] = <<>>

\* the field of a CO, EN or HD record that field x of an FCC_RECORD comes from
SourceField(x) ==
  CASE x \in {"CO_STATUS_CODE", "EN_STATUS_CODE"} -> "STATUS_CODE"
    [] x \in {"CO_STATUS_DATE", "EN_STATUS_DATE"} -> "STATUS_DATE"
    [] OTHER -> x

\* C25: when a CO, EN or HD record is merged and operator+= returns, each date field of
\* the merged record whose date is empty in the incoming record keeps its value, each
\* date field whose date is not empty holds that date rearranged, and each other field
\* that comes from that file holds the incoming value, empty or not
C25_EmptyDateStep ==
  \A f \in {"CO", "EN", "HD"} :
    (Merges(f) /\ rec'["ID"] \in DOMAIN outfile /\ pc' # "exit") =>
      \A x \in FieldsFrom(f) :
        LET old == outfile[rec'["ID"]][x]
            new == outfile'[rec'["ID"]][x]
            in == rec'[SourceField(x)]
        IN IF x \in FccDateFields
             THEN new = (IF in = <<>> THEN old ELSE Reformatted(in))
             ELSE new = in

C25_EmptyDatesKeepStoredDates == [][C25_EmptyDateStep]_vars

\* after a CO record with a comment date and a description and a second CO record with
\* neither, the merged record holds the date of the first and the empty description of
\* the second
C25_Witness ==
  /\ kind = "CO"
  /\ pc = "add_co"
  /\ n_read - Len(hd_file) = 3
  /\ rec["COMMENT_DATE"] = <<>>
  /\ rec["DESCRIPTION"] = <<>>
  /\ rec["ID"] \in DOMAIN outfile
  /\ outfile[rec["ID"]]["COMMENT_DATE"] = <<"2", "0", "2", "0", "-", "0", "1", "-", "0", "2">>
  /\ outfile[rec["ID"]]["DESCRIPTION"] = <<>>

====
